---- MODULE Spec2Model ----
(***************************************************************************)
(* Model of go-postgresql-orm: the gpo tag parser, the condition compiler, *)
(* the statement builders (buildInsertStmt, buildUpdateStmt, QueryBuilder) *)
(* and the connector operations that hand statements to the driver.        *)
(*                                                                         *)
(* Statement text is modelled as TLA+ strings built with the same          *)
(* concatenations the Go code performs; bound arguments are sequences of   *)
(* Value records.                                                          *)
(***************************************************************************)
EXTENDS Integers, Sequences, FiniteSets, TLC

VARIABLES
    input,      \* arguments of the pure function under check
    output,     \* what that function returned (NoOutput before the call)
    qb,         \* the QueryBuilder object
    res,        \* return value of the last QueryBuilder call
    calls       \* number of fluent calls made on qb so far

vars == <<input, output, qb, res, calls>>

(***************************************************************************)
(* Bounds of the model.                                                    *)
(***************************************************************************)
MaxConds == 2       \* longest condition list handed to the compiler
MaxExisting == 2    \* most arguments already accumulated by the caller
MaxSlice == 2       \* longest IN / NOT IN value
MaxVal == 2         \* scalar values are drawn from 1..MaxVal
MaxFields == 2      \* longest hand-written projection handed to buildInsertStmt
MaxOpts == 2        \* most options after the column name of a gpo tag
MaxPage == 2        \* largest limit and offset
MaxCalls == 3       \* most fluent calls made on one QueryBuilder
MaxRows == 2        \* most rows the database reports as affected
MaxDecls == 3       \* most fields declared by a generated record type
MaxExtracts == 3    \* most calls of parseTags on one column list
MaxCols == 3        \* most columns of one result set
MaxResult == 2      \* most rows of one query result
MaxStored == 3      \* most rows stored in the table of the database
MaxLive == 2        \* most columns of the live table that an ALTER diff reads

(***************************************************************************)
(* Strings: the pieces of Go's strings / strconv / fmt packages in use.    *)
(***************************************************************************)
RECURSIVE Itoa(_)
Itoa(n) ==
    IF n < 0 THEN "-" \o Itoa(0 - n)
    ELSE IF n < 10 THEN SubSeq("0123456789", n + 1, n + 1)
    ELSE Itoa(n \div 10) \o SubSeq("0123456789", (n % 10) + 1, (n % 10) + 1)

CharAt(s, i) == SubSeq(s, i, i)

HasPrefix(s, p) == Len(s) >= Len(p) /\ SubSeq(s, 1, Len(p)) = p

HasSuffix(s, p) == Len(s) >= Len(p) /\ SubSeq(s, Len(s) - Len(p) + 1, Len(s)) = p

TrimSuffix(s, p) == IF HasSuffix(s, p) THEN SubSeq(s, 1, Len(s) - Len(p)) ELSE s

RECURSIVE StringsJoin(_, _)
StringsJoin(elems, sep) ==
    IF Len(elems) = 0 THEN ""
    ELSE IF Len(elems) = 1 THEN elems[1]
    ELSE elems[1] \o sep \o StringsJoin(Tail(elems), sep)

\* strings.Index: position of the first occurrence of sub in s (1-based),
\* 0 when there is none (Go returns the 0-based index, -1 for none).
StringsIndex(s, sub) ==
    LET first(hits) == IF hits = {} THEN 0
                       ELSE CHOOSE i \in hits : \A j \in hits : i <= j
    IN  first({i \in 1..(Len(s) - Len(sub) + 1) : SubSeq(s, i, i + Len(sub) - 1) = sub})

\* strings.Split for a non-empty separator: always at least one part.
RECURSIVE StringsSplit(_, _)
StringsSplit(s, sep) ==
    LET cut(i) == IF i = 0 THEN <<s>>
                  ELSE <<SubSeq(s, 1, i - 1)>>
                       \o StringsSplit(SubSeq(s, i + Len(sep), Len(s)), sep)
    IN  cut(StringsIndex(s, sep))

\* strings.Map over ASCII letters: every character of s found in `from` is
\* replaced by the character at the same position of `to`.
RECURSIVE MapString(_, _, _)
MapString(s, from, to) ==
    LET mapped(c, k) == IF k = 0 THEN c ELSE CharAt(to, k)
    IN  IF Len(s) = 0 THEN ""
        ELSE mapped(CharAt(s, 1), StringsIndex(from, CharAt(s, 1)))
             \o MapString(SubSeq(s, 2, Len(s)), from, to)

ToUpper(s) == MapString(s, "abcdefghijklmnopqrstuvwxyz", "ABCDEFGHIJKLMNOPQRSTUVWXYZ")

ToLower(s) == MapString(s, "ABCDEFGHIJKLMNOPQRSTUVWXYZ", "abcdefghijklmnopqrstuvwxyz")

IsDigit(c) == c \in {"0", "1", "2", "3", "4", "5", "6", "7", "8", "9"}

\* Index of the last character of the run of digits that starts at i
\* (i - 1 when there is none).
RECURSIVE DigitsEnd(_, _)
DigitsEnd(text, i) ==
    IF i <= Len(text) /\ IsDigit(CharAt(text, i))
    THEN DigitsEnd(text, i + 1)
    ELSE i - 1

\* The number written by the digits of text from position i on.
RECURSIVE DecimalValue(_, _, _)
DecimalValue(text, i, acc) ==
    IF i > Len(text) THEN acc
    ELSE DecimalValue(text, i + 1,
                      acc * 10 + StringsIndex("0123456789", CharAt(text, i)) - 1)

\* strconv.Atoi: an optional sign followed by at least one digit.
Atoi(s) ==
    LET parse(sign, body) ==
            IF Len(body) > 0 /\ DigitsEnd(body, 1) = Len(body)
            THEN [ok |-> TRUE, n |-> sign * DecimalValue(body, 1, 0)]
            ELSE [ok |-> FALSE, n |-> 0]
    IN  IF HasPrefix(s, "-") THEN parse(0 - 1, SubSeq(s, 2, Len(s)))
        ELSE IF HasPrefix(s, "+") THEN parse(1, SubSeq(s, 2, Len(s)))
        ELSE parse(1, s)

\* strings.TrimSpace
RECURSIVE TrimSpace(_)
TrimSpace(s) ==
    IF Len(s) > 0 /\ CharAt(s, 1) \in {" ", "\t", "\n", "\r"}
    THEN TrimSpace(SubSeq(s, 2, Len(s)))
    ELSE IF Len(s) > 0 /\ CharAt(s, Len(s)) \in {" ", "\t", "\n", "\r"}
    THEN TrimSpace(SubSeq(s, 1, Len(s) - 1))
    ELSE s

(***************************************************************************)
(* Values: Go's interface{} holding a string, an int or a slice.           *)
(***************************************************************************)
StrV(s) == [t |-> "string", s |-> s, n |-> 0, l |-> <<>>]
IntV(n) == [t |-> "int", s |-> "", n |-> n, l |-> <<>>]
SliceV(l) == [t |-> "slice", s |-> "", n |-> 0, l |-> l]

Condition(field, operator, value) ==
    [Field |-> field, Operator |-> operator, Value |-> value]

(***************************************************************************)
(* Record types: a struct is a sequence of fields, each with its Go name,  *)
(* its type name, its struct tag (a record from tag key to tag text) and   *)
(* the value the instance holds.                                           *)
(***************************************************************************)
GPOTag == "gpo"
DefaultIDField == "id"

Field(name, type, tag, value) ==
    [Name |-> name, Type |-> type, Tag |-> tag, Value |-> value]

Model(type, fields) == [nil |-> FALSE, type |-> type, fields |-> fields]

\* reflect.StructTag.Get: "" when the tag has no such key.
TagGet(field, key) == IF key \in DOMAIN field.Tag THEN field.Tag[key] ELSE ""

\* reflect.Value.FieldByName(name).Interface()
FieldValueByName(model, name) ==
    LET j == CHOOSE j \in 1..Len(model.fields) :
                 /\ model.fields[j].Name = name
                 /\ \A h \in 1..(j - 1) : model.fields[h].Name # name
    IN  model.fields[j].Value

(***************************************************************************)
(* The gpo tag parser.                                                     *)
(***************************************************************************)
NilGPOField ==
    [nil |-> TRUE, ColumnName |-> "", IsPrimaryKey |-> FALSE, IsUnique |-> FALSE,
     IsNullable |-> FALSE, Length |-> 0,
     ForeignKey |-> [nil |-> TRUE, Table |-> "", Column |-> "", OnDelete |-> ""]]

\* The body of the fk(...) branch: fkContent is the text between "fk(" and ")".
parseForeignKey(fkContent, gpoField) ==
    LET foreignKey(fkParts, tableColumn, colonIdx) ==
            IF colonIdx # 0
            THEN [gpoField EXCEPT !.ForeignKey =
                     [nil |-> FALSE,
                      Table |-> TrimSpace(SubSeq(tableColumn, 1, colonIdx - 1)),
                      Column |-> TrimSpace(SubSeq(tableColumn, colonIdx + 1,
                                                  Len(tableColumn))),
                      OnDelete |-> IF Len(fkParts) >= 2 THEN TrimSpace(fkParts[2])
                                   ELSE ""]]
            ELSE gpoField
        split(fkParts, tableColumn) ==
            foreignKey(fkParts, tableColumn, StringsIndex(tableColumn, ":"))
        first(fkParts) == split(fkParts, TrimSpace(fkParts[1]))
    IN  first(StringsSplit(fkContent, ","))

\* One iteration of the option loop of parseGPOTag.
parseOption(option, gpoField) ==
    LET withLength(length) ==
            IF length.ok THEN [gpoField EXCEPT !.Length = length.n] ELSE gpoField
    IN  IF option = "pk" THEN [gpoField EXCEPT !.IsPrimaryKey = TRUE]
        ELSE IF option = "unique" THEN [gpoField EXCEPT !.IsUnique = TRUE]
        ELSE IF option = "nullable" THEN [gpoField EXCEPT !.IsNullable = TRUE]
        ELSE IF HasPrefix(option, "length(") /\ HasSuffix(option, ")")
        THEN withLength(Atoi(SubSeq(option, 8, Len(option) - 1)))
        ELSE IF HasPrefix(option, "fk(") /\ HasSuffix(option, ")")
        THEN parseForeignKey(SubSeq(option, 4, Len(option) - 1), gpoField)
        ELSE gpoField

RECURSIVE parseOptions(_, _, _)
parseOptions(parts, i, gpoField) ==
    IF i > Len(parts) THEN gpoField
    ELSE parseOptions(parts, i + 1, parseOption(TrimSpace(parts[i]), gpoField))

parseGPOTag(field) ==
    LET parsed(parts) ==
            parseOptions(parts, 2,
                         [NilGPOField EXCEPT !.nil = FALSE,
                                             !.ColumnName = TrimSpace(parts[1])])
    IN  IF GPOTag \notin DOMAIN field.Tag THEN NilGPOField
        ELSE parsed(StringsSplit(field.Tag[GPOTag], ","))

\* parseTags: the columns appended to *fields and the column -> field map.
RECURSIVE parseTagsLoop(_, _, _)
parseTagsLoop(model, i, acc) ==
    LET step(gpoField) ==
            IF gpoField.nil THEN acc
            ELSE [fields |-> Append(acc.fields, gpoField.ColumnName),
                  fieldMap |-> [c \in DOMAIN acc.fieldMap \cup {gpoField.ColumnName} |->
                                   IF c = gpoField.ColumnName
                                   THEN model.fields[i].Name
                                   ELSE acc.fieldMap[c]]]
    IN  IF i > Len(model.fields) THEN acc
        ELSE parseTagsLoop(model, i + 1, step(parseGPOTag(model.fields[i])))

parseTags(model, fields) ==
    parseTagsLoop(model, 1, [fields |-> fields, fieldMap |-> [c \in {} |-> ""]])

\* getPrimaryKeyField: the column of the first field tagged pk, else "id".
getPrimaryKeyField(model) ==
    LET first(gpoFields, pks) ==
            IF pks = {} THEN DefaultIDField
            ELSE gpoFields[CHOOSE i \in pks : \A h \in pks : i <= h].ColumnName
        scan(gpoFields) ==
            first(gpoFields, {i \in 1..Len(gpoFields) :
                                 ~gpoFields[i].nil /\ gpoFields[i].IsPrimaryKey})
    IN  scan([i \in 1..Len(model.fields) |-> parseGPOTag(model.fields[i])])


(***************************************************************************)
(* The condition compiler.                                                 *)
(***************************************************************************)
\* IN / NOT IN over a slice: one placeholder per element, numbered from the
\* arguments accumulated so far.
RECURSIVE inPlaceholders(_, _, _, _)
inPlaceholders(v, i, placeholders, args) ==
    IF i > Len(v)
    THEN [placeholders |-> placeholders, args |-> args]
    ELSE inPlaceholders(v, i + 1,
                        Append(placeholders, "$" \o Itoa(Len(args) + 1)),
                        Append(args, v[i]))

\* One iteration of the loop of buildConditions over `condition`.
\* Variant: a LIKE / NOT LIKE value written into the clause, not bound.
conditionStepInline(condition, acc) ==
    IF condition.Operator = "LIKE" \/ condition.Operator = "NOT LIKE"
    THEN IF condition.Value.t = "string"
         THEN [parts |-> Append(acc.parts,
                                condition.Field \o " " \o condition.Operator
                                \o " '%" \o condition.Value.s \o "%'"),
               args |-> acc.args, panic |-> acc.panic]
         ELSE [parts |-> acc.parts, args |-> acc.args, panic |-> TRUE]
    ELSE [parts |-> Append(acc.parts,
                           condition.Field \o " " \o condition.Operator
                           \o " $" \o Itoa(Len(acc.args) + 1)),
          args |-> Append(acc.args, condition.Value), panic |-> acc.panic]

conditionStep(condition, acc) ==
    LET expanded(r) ==
            [parts |-> Append(acc.parts,
                              condition.Field \o " " \o condition.Operator
                              \o " (" \o StringsJoin(r.placeholders, ",") \o ")"),
             args |-> r.args, panic |-> acc.panic]
    IN  IF condition.Operator = "IN" \/ condition.Operator = "NOT IN"
        THEN IF condition.Value.t = "slice"
             THEN expanded(inPlaceholders(condition.Value.l, 1, <<>>, acc.args))
             ELSE \* Single value, treat as equals
                  [parts |-> Append(acc.parts,
                                    condition.Field \o " = $" \o Itoa(Len(acc.args) + 1)),
                   args |-> Append(acc.args, condition.Value), panic |-> acc.panic]
        ELSE IF condition.Operator = "LIKE" \/ condition.Operator = "NOT LIKE"
        THEN IF condition.Value.t = "string"
             THEN [parts |-> Append(acc.parts,
                                    condition.Field \o " " \o condition.Operator
                                    \o " $" \o Itoa(Len(acc.args) + 1)),
                   args |-> Append(acc.args, StrV("%" \o condition.Value.s \o "%")),
                   panic |-> acc.panic]
             ELSE \* condition.Value.(string) on a non-string panics
                  [parts |-> acc.parts, args |-> acc.args, panic |-> TRUE]
        ELSE [parts |-> Append(acc.parts,
                               condition.Field \o " " \o condition.Operator
                               \o " $" \o Itoa(Len(acc.args) + 1)),
              args |-> Append(acc.args, condition.Value), panic |-> acc.panic]

RECURSIVE conditionLoop(_, _, _)
conditionLoop(conditions, i, acc) ==
    IF i > Len(conditions) \/ acc.panic
    THEN acc
    ELSE conditionLoop(conditions, i + 1, conditionStep(conditions[i], acc))

\* Variant: placeholders numbered from $1 whatever the caller accumulated.
buildConditionsFromOne(conditions, existingArgs) ==
    LET result(acc) ==
            IF acc.panic
            THEN [clause |-> "", args |-> <<>>, panic |-> TRUE]
            ELSE [clause |-> StringsJoin(acc.parts, " AND "),
                  args |-> existingArgs \o acc.args, panic |-> FALSE]
    IN  IF Len(conditions) = 0
        THEN [clause |-> "", args |-> existingArgs, panic |-> FALSE]
        ELSE result(conditionLoop(conditions, 1,
                                  [parts |-> <<>>, args |-> <<>>, panic |-> FALSE]))

buildConditions(conditions, existingArgs) ==
    LET result(acc) ==
            IF acc.panic
            THEN [clause |-> "", args |-> <<>>, panic |-> TRUE]
            ELSE [clause |-> StringsJoin(acc.parts, " AND "),
                  args |-> acc.args, panic |-> FALSE]
    IN  IF Len(conditions) = 0
        THEN [clause |-> "", args |-> existingArgs, panic |-> FALSE]
        ELSE result(conditionLoop(conditions, 1,
                                  [parts |-> <<>>, args |-> existingArgs, panic |-> FALSE]))

\* Variant: the search text is bound once and shared by every search term.
searchLoopOneArg(searchFields, searchText, i, acc) ==
    [parts |-> acc.parts \o [j \in 1..Len(searchFields) |->
                                searchFields[j] \o " LIKE $" \o Itoa(Len(acc.args) + 1)],
     args |-> Append(acc.args, StrV("%" \o searchText \o "%"))]

RECURSIVE searchLoop(_, _, _, _)
searchLoop(searchFields, searchText, i, acc) ==
    IF i > Len(searchFields)
    THEN acc
    ELSE searchLoop(searchFields, searchText, i + 1,
             [parts |-> Append(acc.parts,
                               searchFields[i] \o " LIKE $" \o Itoa(Len(acc.args) + 1)),
              args |-> Append(acc.args, StrV("%" \o searchText \o "%"))])

\* Variant: search terms OR-ed straight onto the conditions, no parentheses.
buildConditionsWithSearchFlat(conditions, searchFields, searchText, existingArgs) ==
    LET compose(whereParts, s) ==
            [clause |-> StringsJoin(whereParts \o s.parts, " OR "),
             args |-> s.args, panic |-> FALSE]
        search(whereParts, args) ==
            compose(whereParts,
                    IF Len(searchFields) > 0 /\ searchText # ""
                    THEN searchLoop(searchFields, searchText, 1,
                                    [parts |-> <<>>, args |-> args])
                    ELSE [parts |-> <<>>, args |-> args])
        afterConditions(w) ==
            IF w.panic THEN [clause |-> "", args |-> <<>>, panic |-> TRUE]
            ELSE search(IF w.clause # "" THEN <<w.clause>> ELSE <<>>, w.args)
    IN  afterConditions(buildConditions(conditions, existingArgs))

buildConditionsWithSearch(conditions, searchFields, searchText, existingArgs) ==
    LET compose(whereParts, args) ==
            IF Len(whereParts) = 0
            THEN [clause |-> "", args |-> args, panic |-> FALSE]
            ELSE [clause |-> StringsJoin(whereParts, " AND "),
                  args |-> args, panic |-> FALSE]
        withSearch(whereParts, s) ==
            compose(IF Len(s.parts) > 0
                    THEN Append(whereParts, "(" \o StringsJoin(s.parts, " OR ") \o ")")
                    ELSE whereParts,
                    s.args)
        search(whereParts, args) ==
            withSearch(whereParts,
                       IF Len(searchFields) > 0 /\ searchText # ""
                       THEN searchLoop(searchFields, searchText, 1,
                                       [parts |-> <<>>, args |-> args])
                       ELSE [parts |-> <<>>, args |-> args])
        afterConditions(w) ==
            IF w.panic THEN [clause |-> "", args |-> <<>>, panic |-> TRUE]
            ELSE search(IF w.clause # "" THEN <<w.clause>> ELSE <<>>,
                        IF w.clause # "" THEN w.args ELSE existingArgs)
    IN  afterConditions(IF Len(conditions) > 0
                        THEN buildConditions(conditions, existingArgs)
                        ELSE [clause |-> "", args |-> existingArgs, panic |-> FALSE])

(***************************************************************************)
(* Statement builders over a record instance.  Every builder returns       *)
(* [query, args, err, panic]; err = "" is Go's nil error.                  *)
(***************************************************************************)
Built(query, args) == [query |-> query, args |-> args, err |-> "", panic |-> FALSE]
Failed(err) == [query |-> "", args |-> <<>>, err |-> err, panic |-> FALSE]
Panicked == [query |-> "", args |-> <<>>, err |-> "", panic |-> TRUE]

\* The inner loop of buildInsertStmt: the name of the first field whose gpo
\* tag names dbColumnName, "" when there is none.
structFieldNameFor(model, dbColumnName) ==
    LET first(matches) ==
            IF matches = {} THEN ""
            ELSE model.fields[CHOOSE j \in matches : \A h \in matches : j <= h].Name
        scan(gpoFields) ==
            first({j \in 1..Len(gpoFields) :
                      ~gpoFields[j].nil /\ gpoFields[j].ColumnName = dbColumnName})
    IN  scan([j \in 1..Len(model.fields) |-> parseGPOTag(model.fields[j])])

\* Variant: values read by position in the struct, not by column lookup.
RECURSIVE insertLoopByPosition(_, _, _, _)
insertLoopByPosition(params, model, i, acc) ==
    LET step(structFieldName) ==
            IF structFieldName = ""
            THEN Failed("no struct field found for database column " \o params.Fields[i])
            ELSE insertLoopByPosition(params, model, i + 1,
                     Built(acc.query \o "$" \o Itoa(i)
                               \o (IF i < Len(params.Fields) THEN "," ELSE ""),
                           Append(acc.args,
                                  model.fields[IF i <= Len(model.fields) THEN i
                                               ELSE 1].Value)))
    IN  IF i > Len(params.Fields) THEN acc
        ELSE step(structFieldNameFor(model, params.Fields[i]))

RECURSIVE insertLoop(_, _, _, _)
insertLoop(params, model, i, acc) ==
    LET step(structFieldName) ==
            IF structFieldName = ""
            THEN Failed("no struct field found for database column " \o params.Fields[i])
            ELSE insertLoop(params, model, i + 1,
                     Built(acc.query \o "$" \o Itoa(i)
                               \o (IF i < Len(params.Fields) THEN "," ELSE ""),
                           Append(acc.args, FieldValueByName(model, structFieldName))))
    IN  IF i > Len(params.Fields) THEN acc
        ELSE step(structFieldNameFor(model, params.Fields[i]))

buildInsertStmt(params, model) ==
    LET close(r) == IF r.err # "" THEN r ELSE Built(r.query \o ")", r.args)
    IN  close(insertLoop(params, model, 1,
                         Built("INSERT INTO " \o params.Table \o " ("
                                   \o StringsJoin(params.Fields, ",") \o ") VALUES (",
                               <<>>)))

RECURSIVE updateSetLoop(_, _, _)
updateSetLoop(model, i, acc) ==
    LET step(gpoField) ==
            IF gpoField.nil \/ gpoField.IsPrimaryKey THEN acc
            ELSE Built(acc.query \o gpoField.ColumnName \o " = $"
                           \o Itoa(Len(acc.args) + 1) \o ", ",
                       Append(acc.args, model.fields[i].Value))
    IN  IF i > Len(model.fields) THEN acc
        ELSE updateSetLoop(model, i + 1, step(parseGPOTag(model.fields[i])))

\* Variant: the WHERE clause compiled without the SET arguments.
buildUpdateStmtWhereFromOne(params, model) ==
    LET where(query, args, w) ==
            IF w.panic THEN Panicked
            ELSE IF w.clause # "" THEN Built(query \o " WHERE " \o w.clause, args \o w.args)
            ELSE Built(query, args)
        finish(set) ==
            where(TrimSuffix(set.query, ", "), set.args,
                  buildConditions(params.Conditions, <<>>))
    IN  finish(updateSetLoop(model, 1, Built("UPDATE " \o params.Table \o " SET ", <<>>)))

buildUpdateStmt(params, model) ==
    LET where(query, args, w) ==
            IF w.panic THEN Panicked
            ELSE IF w.clause # "" THEN Built(query \o " WHERE " \o w.clause, w.args)
            ELSE Built(query, args)
        finish(set) ==
            where(TrimSuffix(set.query, ", "), set.args,
                  IF Len(params.Conditions) > 0
                  THEN buildConditions(params.Conditions, set.args)
                  ELSE [clause |-> "", args |-> set.args, panic |-> FALSE])
    IN  finish(updateSetLoop(model, 1, Built("UPDATE " \o params.Table \o " SET ", <<>>)))


(***************************************************************************)
(* Reading a statement back: the placeholders `$n` of a text, left to      *)
(* right.                                                                  *)
(***************************************************************************)
RECURSIVE PlaceholdersFrom(_, _, _)
PlaceholdersFrom(text, i, acc) ==
    IF i > Len(text) THEN acc
    ELSE IF CharAt(text, i) = "$" /\ DigitsEnd(text, i + 1) > i
    THEN PlaceholdersFrom(text, DigitsEnd(text, i + 1) + 1,
             Append(acc, DecimalValue(SubSeq(text, i + 1, DigitsEnd(text, i + 1)), 1, 0)))
    ELSE PlaceholdersFrom(text, i + 1, acc)

Placeholders(text) == PlaceholdersFrom(text, 1, <<>>)

\* Does `text` contain `sub`?
Contains(text, sub) ==
    \E i \in 1..(Len(text) - Len(sub) + 1) : SubSeq(text, i, i + Len(sub) - 1) = sub

(***************************************************************************)
(* Specification SpecCond: the condition compiler applied to bounded       *)
(* inputs.                                                                 *)
(***************************************************************************)
NoInput == [fn |-> "none"]
NoOutput == [fn |-> "none"]
NoResult == [kind |-> "none"]

StrVals == {StrV("v" \o Itoa(i)) : i \in 1..MaxVal}
IntVals == {IntV(i) : i \in 1..MaxVal}
SliceVals == {SliceV([j \in 1..n |-> IntV(j)]) : n \in 0..MaxSlice}

CondInputs ==
    {Condition("name", "LIKE", v) : v \in StrVals \cup {IntV(1)}}
    \cup {Condition("name", "NOT LIKE", v) : v \in {StrV("v1"), IntV(1)}}
    \cup {Condition("age", op, v) : op \in {"IN", "NOT IN"}, v \in SliceVals \cup {IntV(1)}}
    \cup {Condition("age", "=", IntV(1))}

RECURSIVE SeqsUpTo(_, _)
SeqsUpTo(S, n) ==
    IF n = 0 THEN {<<>>}
    ELSE LET shorter == SeqsUpTo(S, n - 1)
         IN  shorter \cup {Append(q, x) : q \in {r \in shorter : Len(r) = n - 1}, x \in S}

SearchFieldInputs == {<<>>, <<"name">>, <<"name", "email">>}
SearchTextInputs == {"", "q"}
ExistingArgsInputs == {[i \in 1..k |-> StrV("e" \o Itoa(i))] : k \in 0..MaxExisting}

(***************************************************************************)
(* The QueryBuilder object.                                                *)
(***************************************************************************)
NilModel == [nil |-> TRUE, type |-> "", fields |-> <<>>]

EmptyMap == [c \in {} |-> StrV("")]

NewQueryBuilder ==
    [queryType |-> "", table |-> "", fields |-> <<>>, joins |-> <<>>,
     conditions |-> <<>>, orderBy |-> <<>>, groupBy |-> <<>>, having |-> <<>>,
     limit |-> 0, offset |-> 0, values |-> EmptyMap,
     updateModel |-> NilModel, insertModel |-> NilModel,
     searchText |-> "", searchFields |-> <<>>]

\* The fluent methods: each returns the builder it was called on, updated.
Select(b, fields) ==
    [b EXCEPT !.queryType = "SELECT",
              !.fields = IF Len(fields) = 0 THEN <<"*">> ELSE fields]

From(b, table) == [b EXCEPT !.table = table]

Where(b, field, operator, value) ==
    [b EXCEPT !.conditions = Append(@, Condition(field, operator, value))]

Search(b, fields, text) == [b EXCEPT !.searchFields = fields, !.searchText = text]

OrderBy(b, field, direction) ==
    [b EXCEPT !.orderBy = Append(@, field \o " " \o ToUpper(direction))]

OrderByAsc(b, field) == OrderBy(b, field, "ASC")

OrderByDesc(b, field) == OrderBy(b, field, "DESC")

Limit(b, limit) == [b EXCEPT !.limit = limit]

Offset(b, offset) == [b EXCEPT !.offset = offset]

Update(b, table) == [b EXCEPT !.queryType = "UPDATE", !.table = table]

SetModel(b, model) == [b EXCEPT !.updateModel = model]

DeleteFrom(b, table) == [b EXCEPT !.queryType = "DELETE", !.table = table]

\* The iteration orders `range` may take over a map with key set S.
RangeOrders(S) ==
    {o \in [1..Cardinality(S) -> S] : \A i, j \in 1..Cardinality(S) : o[i] = o[j] => i = j}

buildSelect(b) ==
    LET finish(w) ==
            IF w.panic THEN Panicked
            ELSE Built("SELECT " \o StringsJoin(b.fields, ", ") \o " FROM " \o b.table
                           \o (IF Len(b.joins) > 0
                               THEN " " \o StringsJoin(b.joins, " ") ELSE "")
                           \o (IF w.clause # "" THEN " WHERE " \o w.clause ELSE "")
                           \o (IF Len(b.groupBy) > 0
                               THEN " GROUP BY " \o StringsJoin(b.groupBy, ", ") ELSE "")
                           \o (IF Len(b.having) > 0
                               THEN " HAVING " \o StringsJoin(b.having, " AND ") ELSE "")
                           \o (IF Len(b.orderBy) > 0
                               THEN " ORDER BY " \o StringsJoin(b.orderBy, ", ") ELSE "")
                           \o (IF b.limit > 0 THEN " LIMIT " \o Itoa(b.limit) ELSE "")
                           \o (IF b.offset > 0 THEN " OFFSET " \o Itoa(b.offset) ELSE ""),
                       IF w.clause # "" THEN w.args ELSE <<>>)
    IN  IF b.table = "" THEN Failed("table name is required for SELECT")
        ELSE finish(IF Len(b.conditions) > 0 \/ Len(b.searchFields) > 0
                    THEN buildConditionsWithSearch(b.conditions, b.searchFields,
                                                   b.searchText, <<>>)
                    ELSE [clause |-> "", args |-> <<>>, panic |-> FALSE])

\* The loop over qb.values of buildInsert, taken in iteration order `order`.
RECURSIVE insertValuesLoop(_, _, _, _)
insertValuesLoop(values, order, i, acc) ==
    IF i > Len(order) THEN acc
    ELSE insertValuesLoop(values, order, i + 1,
             [fields |-> Append(acc.fields, order[i]),
              placeholders |-> Append(acc.placeholders, "$" \o Itoa(Len(acc.args) + 1)),
              args |-> Append(acc.args, values[order[i]])])

buildInsert(b, order) ==
    LET finish(r) ==
            Built("INSERT INTO " \o b.table \o " (" \o StringsJoin(r.fields, ", ")
                      \o ") VALUES (" \o StringsJoin(r.placeholders, ", ") \o ")",
                  r.args)
    IN  IF b.table = "" THEN Failed("table name is required for INSERT")
        ELSE IF ~b.insertModel.nil
        THEN buildInsertStmt([Table |-> b.table,
                              Fields |-> parseTags(b.insertModel, <<>>).fields],
                             b.insertModel)
        ELSE IF Cardinality(DOMAIN b.values) = 0
        THEN Failed("values are required for INSERT")
        ELSE finish(insertValuesLoop(b.values, order, 1,
                        [fields |-> <<>>, placeholders |-> <<>>, args |-> <<>>]))

\* The loop over qb.values of buildUpdate, taken in iteration order `order`.
RECURSIVE updateValuesLoop(_, _, _, _)
updateValuesLoop(values, order, i, acc) ==
    IF i > Len(order) THEN acc
    ELSE updateValuesLoop(values, order, i + 1,
             [setParts |-> Append(acc.setParts,
                                  order[i] \o " = $" \o Itoa(Len(acc.args) + 1)),
              args |-> Append(acc.args, values[order[i]])])

buildUpdate(b, order) ==
    LET where(query, args, w) ==
            IF w.panic THEN Panicked
            ELSE IF w.clause # "" THEN Built(query \o " WHERE " \o w.clause, w.args)
            ELSE Built(query, args)
        finish(r) ==
            where("UPDATE " \o b.table \o " SET " \o StringsJoin(r.setParts, ", "),
                  r.args,
                  IF Len(b.conditions) > 0
                  THEN buildConditions(b.conditions, r.args)
                  ELSE [clause |-> "", args |-> r.args, panic |-> FALSE])
    IN  IF b.table = "" THEN Failed("table name is required for UPDATE")
        ELSE IF ~b.updateModel.nil
        THEN buildUpdateStmt([Table |-> b.table, Conditions |-> b.conditions],
                             b.updateModel)
        ELSE IF Cardinality(DOMAIN b.values) = 0
        THEN Failed("values are required for UPDATE")
        ELSE finish(updateValuesLoop(b.values, order, 1,
                                     [setParts |-> <<>>, args |-> <<>>]))

\* Variant: the search fields of the builder compiled into DELETE as well.
buildDeleteWithSearch(b) ==
    LET finish(w) ==
            IF w.panic THEN Panicked
            ELSE IF w.clause # ""
            THEN Built("DELETE FROM " \o b.table \o " WHERE " \o w.clause, w.args)
            ELSE Built("DELETE FROM " \o b.table, <<>>)
    IN  IF b.table = "" THEN Failed("table name is required for DELETE")
        ELSE finish(IF Len(b.conditions) > 0 \/ Len(b.searchFields) > 0
                    THEN buildConditionsWithSearch(b.conditions, b.searchFields,
                                                   b.searchText, <<>>)
                    ELSE [clause |-> "", args |-> <<>>, panic |-> FALSE])

buildDelete(b) ==
    LET finish(w) ==
            IF w.panic THEN Panicked
            ELSE IF w.clause # ""
            THEN Built("DELETE FROM " \o b.table \o " WHERE " \o w.clause, w.args)
            ELSE Built("DELETE FROM " \o b.table, <<>>)
    IN  IF b.table = "" THEN Failed("table name is required for DELETE")
        ELSE finish(IF Len(b.conditions) > 0
                    THEN buildConditions(b.conditions, <<>>)
                    ELSE [clause |-> "", args |-> <<>>, panic |-> FALSE])

\* QueryBuilder.Build; `order` is the order in which `range qb.values` runs.
Build(b, order) ==
    IF b.queryType = "SELECT" THEN buildSelect(b)
    ELSE IF b.queryType = "INSERT" THEN buildInsert(b, order)
    ELSE IF b.queryType = "UPDATE" THEN buildUpdate(b, order)
    ELSE IF b.queryType = "DELETE" THEN buildDelete(b)
    ELSE Failed("unsupported query type: " \o b.queryType)

\* The `for _, condition := range params.Conditions { qb.Where(...) }` loop.
RECURSIVE whereLoop(_, _, _)
whereLoop(b, conditions, i) ==
    IF i > Len(conditions) THEN b
    ELSE whereLoop(Where(b, conditions[i].Field, conditions[i].Operator,
                         conditions[i].Value),
                   conditions, i + 1)

\* buildQuery: the error of Build is dropped (`query, args, _ := qb.Build()`).
buildQuery(params) ==
    LET result(r) == [query |-> r.query, args |-> r.args, panic |-> r.panic]
        limited(b) == IF params.Limit > 0 THEN Limit(b, params.Limit) ELSE b
        ordered(b) == IF params.OrderBy = "" THEN b
                      ELSE IF params.Descending THEN OrderByDesc(b, params.OrderBy)
                      ELSE OrderByAsc(b, params.OrderBy)
    IN  result(Build(limited(ordered(
            whereLoop(From(Select(NewQueryBuilder, params.fields), params.Table),
                      params.Conditions, 1))), <<>>))

\* buildAdvancedQuery: as buildQuery, with search, offset and a default
\* limit of 10.
buildAdvancedQuery(params) ==
    LET result(r) == [query |-> r.query, args |-> r.args, panic |-> r.panic]
        paged(b) == IF params.Offset > 0 THEN Offset(b, params.Offset) ELSE b
        limited(b) == IF params.Limit > 0 THEN Limit(b, params.Limit) ELSE Limit(b, 10)
        ordered(b) == IF params.OrderBy = "" THEN b
                      ELSE IF params.Descending THEN OrderByDesc(b, params.OrderBy)
                      ELSE OrderByAsc(b, params.OrderBy)
        searched(b) == IF Len(params.SearchFields) > 0 /\ params.SearchText # ""
                       THEN Search(b, params.SearchFields, params.SearchText) ELSE b
    IN  result(Build(paged(limited(ordered(searched(
            whereLoop(From(Select(NewQueryBuilder, params.fields), params.Table),
                      params.Conditions, 1))))), <<>>))

(***************************************************************************)
(* The connector: update and delete, with the database driver's answers    *)
(* (`drv`) left open.                                                      *)
(***************************************************************************)
defaultTablePrefix == "gpo_"

getTableNameFromModel(tablePrefix, model) ==
    (IF tablePrefix = "" THEN defaultTablePrefix ELSE tablePrefix) \o ToLower(model.type)

\* What one connector call did: the statements it prepared, the argument
\* lists it executed them with, and the (count, error) it returned.
Returned(prepared, executed, n, err) ==
    [prepared |-> prepared, executed |-> executed, n |-> n, err |-> err, panic |-> FALSE]

\* stmt, err := db.PrepareContext(ctx, q); result, err := stmt.Exec(args...);
\* result.RowsAffected()
prepareAndExec(q, args, drv) ==
    IF drv.kind = "prepare error" THEN Returned(<<q>>, <<>>, 0, "prepare")
    ELSE IF drv.kind = "exec error" THEN Returned(<<q>>, <<args>>, 0, "exec")
    ELSE IF drv.kind = "rows error" THEN Returned(<<q>>, <<args>>, 0, "rows affected")
    ELSE Returned(<<q>>, <<args>>, drv.n, "")

\* The loop of connector delete over the conditions: no LIKE wrapping, no IN
\* expansion, placeholder i+1 for the condition at index i.
RECURSIVE deleteLoop(_, _, _)
deleteLoop(condition, i, acc) ==
    IF i > Len(condition) THEN acc
    ELSE deleteLoop(condition, i + 1,
             [sql |-> acc.sql \o (IF i > 1 THEN " AND " ELSE "")
                          \o condition[i].Field \o " " \o condition[i].Operator
                          \o " $" \o Itoa(i),
              args |-> Append(acc.args, condition[i].Value)])

delete(s, model, condition, drv) ==
    LET exec(r) == prepareAndExec(r.sql, r.args, drv)
        where(sql) == IF Len(condition) > 0
                      THEN deleteLoop(condition, 1, [sql |-> sql \o " WHERE ", args |-> <<>>])
                      ELSE [sql |-> sql, args |-> <<>>]
    IN  exec(where("DELETE FROM " \o getTableNameFromModel(s.TablePrefix, model)))

\* The value of the first field tagged db_column:"id", as a condition list;
\* empty when no field carries that tag.
idCondition(model) ==
    LET first(tagged) ==
            IF tagged = {} THEN <<>>
            ELSE <<Condition("id", "=",
                             model.fields[CHOOSE i \in tagged :
                                              \A h \in tagged : i <= h].Value)>>
    IN  first({i \in 1..Len(model.fields) : TagGet(model.fields[i], "db_column") = "id"})

update(s, model, conditionsOrNil, drv) ==
    LET exec(r) ==
            IF r.panic THEN [Returned(<<>>, <<>>, 0, "") EXCEPT !.panic = TRUE]
            ELSE IF r.err # "" THEN Returned(<<>>, <<>>, 0, r.err)
            ELSE prepareAndExec(r.query, r.args, drv)
        build(conditions) ==
            exec(buildUpdateStmt([Table |-> getTableNameFromModel(s.TablePrefix, model),
                                  Conditions |-> conditions],
                                 model))
    IN  IF conditionsOrNil.kind = "other"
        THEN Returned(<<>>, <<>>, 0, "conditionsOrNil must be a slice of Condition")
        ELSE IF conditionsOrNil.kind = "conditions" /\ Len(conditionsOrNil.conditions) > 0
        THEN build(conditionsOrNil.conditions)
        ELSE build(idCondition(model))

(***************************************************************************)
(* The row materializer.  A scan target is either the address of a field   *)
(* of the record (kind "field") or the address of a throwaway variable     *)
(* (kind "discard"); kind "nil" is the nil interface make() starts with.   *)
(***************************************************************************)
\* reflect.Value.FieldByName(name).IsValid()
FieldIsValid(modelVal, name) ==
    \E j \in 1..Len(modelVal.fields) : modelVal.fields[j].Name = name

\* Variant: the targets of unmapped columns are left as make() created them.
scanRowToModelSkipUnmapped(columns, fieldMap, modelVal) ==
    [i \in 1..Len(columns) |->
        IF columns[i] \in DOMAIN fieldMap
        THEN IF FieldIsValid(modelVal, fieldMap[columns[i]]) /\ modelVal.addressable
             THEN [kind |-> "field", name |-> fieldMap[columns[i]]]
             ELSE [kind |-> "discard", name |-> ""]
        ELSE [kind |-> "nil", name |-> ""]]

scanRowToModel(columns, fieldMap, modelVal) ==
    [i \in 1..Len(columns) |->
        IF columns[i] \in DOMAIN fieldMap
        THEN IF FieldIsValid(modelVal, fieldMap[columns[i]]) /\ modelVal.addressable
             THEN [kind |-> "field", name |-> fieldMap[columns[i]]]
             ELSE [kind |-> "discard", name |-> ""]
        ELSE [kind |-> "discard", name |-> ""]]

(***************************************************************************)
(* Reads: the query a find issues, the rows the driver delivers and the    *)
(* records made from them.  `drv` is the driver's answer: a query error,   *)
(* or the result's columns and rows and the number of rows that rows.Next  *)
(* delivers before it returns false (fewer than all rows when the          *)
(* iteration fails; rows.Err then holds the failure).                      *)
(***************************************************************************)
\* One call on the driver: `on` is "db" (s.GetConnection()) or "tx".
DriverCall(on, op, sql, args) == [on |-> on, op |-> op, sql |-> sql, args |-> args]

\* SQL NULL on the wire.
NullV == [t |-> "null", s |-> "", n |-> 0, l |-> <<>>]

\* The zero value of a Go type; uuid.Nil for uuid.UUID.
ZeroValue(type) ==
    IF type = "int" THEN IntV(0)
    ELSE IF type = "UUID" THEN StrV("00000000-0000-0000-0000-000000000000")
    ELSE StrV("")

\* The zero value of DatabaseQuery.
DatabaseQuery ==
    [Table |-> "", Model |-> NilModel, Conditions |-> <<>>, OrderBy |-> "",
     Descending |-> FALSE, Limit |-> 0, Offset |-> 0, SearchFields |-> <<>>,
     SearchText |-> "", AllowPagination |-> FALSE, AllowSearch |-> FALSE,
     fields |-> <<>>]

\* reflect.New(reflect.TypeOf(model).Elem()).Elem(): every field zero.
reflectNew(model) ==
    [model EXCEPT !.fields =
        [j \in 1..Len(model.fields) |->
            [model.fields[j] EXCEPT !.Value = ZeroValue(model.fields[j].Type)]]]

\* What rows.Scan stores in a field from a wire value: database/sql's
\* convertAssign for string and int, (*uuid.UUID).Scan for uuid.UUID.
convertAssign(field, src) ==
    LET parsed(r) == [ok |-> r.ok, v |-> IntV(r.n)]
    IN  IF field.Type = "string"
        THEN IF src.t = "string" THEN [ok |-> TRUE, v |-> src]
             ELSE IF src.t = "int" THEN [ok |-> TRUE, v |-> StrV(Itoa(src.n))]
             ELSE [ok |-> FALSE, v |-> field.Value]
        ELSE IF field.Type = "int"
        THEN IF src.t = "int" THEN [ok |-> TRUE, v |-> src]
             ELSE IF src.t = "string" THEN parsed(Atoi(src.s))
             ELSE [ok |-> FALSE, v |-> field.Value]
        ELSE IF src.t = "string" /\ src.s # "" THEN [ok |-> TRUE, v |-> src]
             ELSE IF src.t = "int" THEN [ok |-> FALSE, v |-> field.Value]
             ELSE [ok |-> TRUE, v |-> field.Value]

\* rows.Scan(scanArgs...): the targets are assigned in column order and the
\* first failed conversion ends the scan.
RECURSIVE scanLoop(_, _, _, _)
scanLoop(scanArgs, row, i, acc) ==
    LET assign(j, c) ==
            IF c.ok
            THEN [acc EXCEPT !.modelVal.fields[j].Value = c.v]
            ELSE [acc EXCEPT !.err = "scan"]
        store(j) == assign(j, convertAssign(acc.modelVal.fields[j], row[i]))
    IN  IF i > Len(scanArgs) \/ acc.err # "" THEN acc
        ELSE scanLoop(scanArgs, row, i + 1,
                 IF scanArgs[i].kind = "field"
                 THEN store(CHOOSE j \in 1..Len(acc.modelVal.fields) :
                                acc.modelVal.fields[j].Name = scanArgs[i].name)
                 ELSE acc)

rowsScan(scanArgs, row, modelVal) ==
    scanLoop(scanArgs, row, 1, [err |-> "", modelVal |-> modelVal])

\* QueryContext on the connection or the transaction with a built query.
QueryContext(on, q, drv) ==
    IF q.panic THEN [driver |-> <<>>, err |-> "", panic |-> TRUE]
    ELSE [driver |-> <<DriverCall(on, "query", q.query, q.args)>>,
          err |-> IF drv.kind = "query error" THEN "query" ELSE "",
          panic |-> FALSE]

\* Variant: the transaction's query goes to the connection.
doQueryInTransactionOnConnection(queryProps, drv) ==
    QueryContext("db",
                 IF queryProps.AllowPagination \/ queryProps.AllowSearch
                 THEN buildAdvancedQuery(queryProps) ELSE buildQuery(queryProps),
                 drv)

doQueryInTransaction(queryProps, drv) ==
    QueryContext("tx",
                 IF queryProps.AllowPagination \/ queryProps.AllowSearch
                 THEN buildAdvancedQuery(queryProps) ELSE buildQuery(queryProps),
                 drv)

doQuery(queryProps, drv) ==
    QueryContext("db",
                 IF queryProps.AllowPagination \/ queryProps.AllowSearch
                 THEN buildAdvancedQuery(queryProps) ELSE buildQuery(queryProps),
                 drv)

\* What a find did: the driver calls it made, the error it returned, and the
\* destination and the query configuration as it left them.
Found(driver, err, panic, models, queryProps) ==
    [driver |-> driver, err |-> err, panic |-> panic, models |-> models,
     queryProps |-> queryProps]

\* `for rows.Next()` of all, allWithTransaction: a new record per row, its
\* scan targets, rows.Scan, reflect.Append.  reflect.Append panics when the
\* record is not assignable to the destination's element type.
RECURSIVE allLoop(_, _, _, _, _, _)
allLoop(elem, rows, k, columns, fieldMap, acc) ==
    LET append(r) ==
            IF r.err # "" THEN [acc EXCEPT !.err = "error scanning row"]
            ELSE IF elem # r.modelVal.type THEN [acc EXCEPT !.panic = TRUE]
            ELSE [acc EXCEPT !.items = Append(@, [nil |-> FALSE,
                                                  type |-> r.modelVal.type,
                                                  fields |-> r.modelVal.fields])]
        scan(modelVal) ==
            append(rowsScan(scanRowToModel(columns, fieldMap, modelVal), rows[k], modelVal))
    IN  IF k > Len(rows) \/ acc.err # "" \/ acc.panic THEN acc
        ELSE allLoop(elem, rows, k + 1, columns, fieldMap,
                     scan([addressable |-> TRUE] @@ reflectNew(acc.model)))

\* The part all and allWithTransaction share once the destination passed
\* the kind test: table name, parseTags on queryProps.fields, the query
\* (`q`, made from the updated configuration) and the rows.
allRows(models, queryProps, q, drv) ==
    LET done(r) == Found(q.driver, r.err, r.panic,
                         [models EXCEPT !.items = r.items], queryProps)
    IN  IF q.panic \/ q.err # ""
        THEN Found(q.driver, IF q.err # "" THEN "error querying database" ELSE "",
                   q.panic, models, queryProps)
        ELSE done(allLoop(models.elem, SubSeq(drv.rows, 1, drv.delivered), 1,
                          drv.columns, parseTags(queryProps.Model, <<>>).fieldMap,
                          [items |-> models.items, err |-> "", panic |-> FALSE,
                           model |-> queryProps.Model]))

\* queryProps as all leaves it before the query: Table filled in when empty,
\* the column list of the record type appended to fields.
allProps(s, queryProps) ==
    [queryProps EXCEPT
        !.Table = IF @ = "" /\ ~queryProps.Model.nil
                  THEN getTableNameFromModel(s.TablePrefix, queryProps.Model) ELSE @,
        !.fields = parseTags(queryProps.Model, @).fields]

\* The destination test: reflect.ValueOf(nil) is the zero Value, on which
\* val.Type() panics while the error message is being made.
all(s, models, queryProps, drv) ==
    LET run(props) == allRows(models, props, doQuery(props, drv), drv)
    IN  IF models.kind = "nil" THEN Found(<<>>, "", TRUE, models, queryProps)
        ELSE IF models.kind # "ptr" \/ models.elemKind # "slice"
        THEN Found(<<>>, "models must be a pointer to a slice", FALSE, models, queryProps)
        ELSE run(allProps(s, queryProps))

allWithTransaction(s, models, queryProps, drv) ==
    LET run(props) == allRows(models, props, doQueryInTransaction(props, drv), drv)
    IN  IF models.kind = "nil" THEN Found(<<>>, "", TRUE, models, queryProps)
        ELSE IF models.kind # "ptr" \/ models.elemKind # "slice"
        THEN Found(<<>>, "models must be a pointer to a slice", FALSE, models, queryProps)
        ELSE run(allProps(s, queryProps))

(***************************************************************************)
(* Single-record reads and the operations that take a transaction.  Every  *)
(* operation returns the driver calls it made (`driver`), the count and    *)
(* the error it returned, and whether its signature has a count at all.    *)
(***************************************************************************)
Done(driver, n, err, count) ==
    [driver |-> driver, n |-> n, err |-> err, panic |-> FALSE, count |-> count]

\* PrepareContext on the connection ("db") or the transaction ("tx"), Exec of
\* the prepared statement, and RowsAffected when `count` says the operation
\* asks for it.
prepareExecOn(on, q, args, drv, count) ==
    IF drv.kind = "prepare error"
    THEN Done(<<DriverCall(on, "prepare", q, <<>>)>>, 0, "prepare", count)
    ELSE IF drv.kind = "exec error"
    THEN Done(<<DriverCall(on, "prepare", q, <<>>), DriverCall(on, "exec", q, args)>>,
              0, "exec", count)
    ELSE IF drv.kind = "rows error" /\ count
    THEN Done(<<DriverCall(on, "prepare", q, <<>>), DriverCall(on, "exec", q, args)>>,
              0, "rows affected", count)
    ELSE Done(<<DriverCall(on, "prepare", q, <<>>), DriverCall(on, "exec", q, args)>>,
              IF count THEN drv.n ELSE 0, "", count)

\* A built statement, executed unless building it failed.
execBuilt(on, r, drv, count) ==
    IF r.panic THEN [Done(<<>>, 0, "", count) EXCEPT !.panic = TRUE]
    ELSE IF r.err # "" THEN Done(<<>>, 0, r.err, count)
    ELSE prepareExecOn(on, r.query, r.args, drv, count)

insert(s, model, drv) ==
    execBuilt("db",
              buildInsertStmt([Table |-> getTableNameFromModel(s.TablePrefix, model),
                               Fields |-> parseTags(model, <<>>).fields],
                              model),
              drv, FALSE)

\* InsertWithTransactionAndContext; InsertWithTransaction is the same body
\* with context.Background().
InsertWithTransactionAndContext(s, model, drv) ==
    execBuilt("tx",
              buildInsertStmt([Table |-> getTableNameFromModel(s.TablePrefix, model),
                               Fields |-> parseTags(model, <<>>).fields],
                              model),
              drv, FALSE)

\* UpdateWithTransactionAndContext and UpdateWithTransaction: no conditions
\* parameter, the WHERE is the field tagged db_column:"id".
UpdateWithTransactionAndContext(s, model, drv) ==
    execBuilt("tx",
              buildUpdateStmt([Table |-> getTableNameFromModel(s.TablePrefix, model),
                               Conditions |-> idCondition(model)],
                              model),
              drv, TRUE)

\* DeleteWithTransactionAndContext and DeleteWithTransaction return only an
\* error: the result of Exec is dropped.
DeleteWithTransactionAndContext(s, model, condition, drv) ==
    LET exec(r) == prepareExecOn("tx", r.sql, r.args, drv, FALSE)
        where(sql) == IF Len(condition) > 0
                      THEN deleteLoop(condition, 1, [sql |-> sql \o " WHERE ", args |-> <<>>])
                      ELSE [sql |-> sql, args |-> <<>>]
    IN  exec(where("DELETE FROM " \o getTableNameFromModel(s.TablePrefix, model)))

\* The configuration first and firstWithTransaction query with.
firstProps(s, model, conditionOrId) ==
    [DatabaseQuery EXCEPT
        !.Table = getTableNameFromModel(s.TablePrefix, model),
        !.Model = model,
        !.Conditions = IF conditionOrId.kind = "conditions" THEN conditionOrId.conditions
                       ELSE <<Condition("id", "=", conditionOrId.value)>>,
        !.Limit = 1,
        !.fields = parseTags(model, <<>>).fields]

\* Variant: the last delivered row is scanned into the caller's record.
firstRowScanLast(model, queryProps, q, drv) ==
    LET scanned(r) == Found(q.driver, IF r.err # "" THEN "error scanning row" ELSE "",
                            FALSE,
                            [nil |-> FALSE, type |-> r.modelVal.type,
                             fields |-> r.modelVal.fields],
                            queryProps)
        scan(modelVal) ==
            scanned(rowsScan(scanRowToModel(drv.columns,
                                            parseTags(model, <<>>).fieldMap, modelVal),
                             drv.rows[drv.delivered], modelVal))
    IN  IF q.panic \/ q.err # ""
        THEN Found(q.driver, IF q.err # "" THEN "error querying database" ELSE "",
                   q.panic, model, queryProps)
        ELSE IF drv.delivered = 0 THEN Found(q.driver, "", FALSE, model, queryProps)
        ELSE scan([addressable |-> TRUE] @@ model)

\* `if rows.Next()` of first: the first delivered row is scanned into the
\* caller's record.
firstRow(model, queryProps, q, drv) ==
    LET scanned(r) == Found(q.driver, IF r.err # "" THEN "error scanning row" ELSE "",
                            FALSE,
                            [nil |-> FALSE, type |-> r.modelVal.type,
                             fields |-> r.modelVal.fields],
                            queryProps)
        scan(modelVal) ==
            scanned(rowsScan(scanRowToModel(drv.columns,
                                            parseTags(model, <<>>).fieldMap, modelVal),
                             drv.rows[1], modelVal))
    IN  IF q.panic \/ q.err # ""
        THEN Found(q.driver, IF q.err # "" THEN "error querying database" ELSE "",
                   q.panic, model, queryProps)
        ELSE IF drv.delivered = 0 THEN Found(q.driver, "", FALSE, model, queryProps)
        ELSE scan([addressable |-> TRUE] @@ model)

first(s, model, conditionOrId, drv) ==
    LET run(props) == firstRow(model, props, doQuery(props, drv), drv)
    IN  IF conditionOrId.kind = "nil"
        THEN Found(<<>>, "conditionOrId cannot be nil", FALSE, model, DatabaseQuery)
        ELSE run(firstProps(s, model, conditionOrId))

firstWithTransaction(s, model, conditionOrId, drv) ==
    LET run(props) == firstRow(model, props, doQueryInTransaction(props, drv), drv)
    IN  IF conditionOrId.kind = "nil"
        THEN Found(<<>>, "conditionOrId cannot be nil", FALSE, model, DatabaseQuery)
        ELSE run(firstProps(s, model, conditionOrId))

\* Query: the table is not derived from the record type, and a nil Model is
\* only looked at (reflect.TypeOf(nil).Elem() panics) when a row arrives.
Query(queryProps, drv) ==
    LET checked(r) ==
            IF queryProps.Model.nil /\ ~r.panic /\ r.err = "" /\ drv.delivered > 0
            THEN Found(r.driver, "", TRUE, r.models, r.queryProps)
            ELSE r
        run(props) ==
            checked(allRows([kind |-> "ptr", elemKind |-> "slice",
                             elem |-> props.Model.type, items |-> <<>>],
                            props, doQuery(props, drv), drv))
    IN  run(IF queryProps.Model.nil THEN queryProps
            ELSE [queryProps EXCEPT !.fields = parseTags(queryProps.Model, @).fields])

(***************************************************************************)
(* The schema builder: columns and foreign keys derived from the gpo tags  *)
(* of a record type, and the CREATE TABLE statement made from them.        *)
(***************************************************************************)
Column(name, type, primaryKey, unique, null, length) ==
    [Name |-> name, Type |-> type, PrimaryKey |-> primaryKey, Unique |-> unique,
     Null |-> null, Length |-> length]

ForeignKey(columnName, references, onDelete) ==
    [ColumnName |-> columnName, References |-> references, OnDelete |-> onDelete]

convertGoTypeToPostgresType(goType, length) ==
    IF goType = "string"
    THEN IF length > 0 /\ length <= 255 THEN "VARCHAR(" \o Itoa(length) \o ")"
         ELSE IF length > 255 THEN "TEXT"
         ELSE "VARCHAR(255)"
    ELSE IF goType \in {"int", "int32", "int64", "uint", "uint32", "uint64"} THEN "INTEGER"
    ELSE IF goType \in {"float", "float32", "float64"} THEN "REAL"
    ELSE IF goType = "bool" THEN "BOOLEAN"
    ELSE IF goType = "UUID" THEN "UUID"
    ELSE IF goType = "Time" THEN "TIMESTAMP"
    ELSE IF goType = "time.Duration" THEN "BIGINT"
    ELSE IF length > 0 THEN "VARCHAR(" \o Itoa(length) \o ")"
    ELSE "VARCHAR(255)"

\* The loop over the fields of the record type: one column per tagged field,
\* one foreign key per tagged field that carries one.
RECURSIVE columnsLoop(_, _, _, _)
columnsLoop(s, tablePrefix, i, acc) ==
    LET step(field, gpoField) ==
            IF gpoField.nil THEN acc
            ELSE [columns |->
                      Append(acc.columns,
                             Column(gpoField.ColumnName,
                                    convertGoTypeToPostgresType(field.Type, gpoField.Length),
                                    gpoField.IsPrimaryKey, gpoField.IsUnique,
                                    gpoField.IsNullable, gpoField.Length)),
                  foreignKeys |->
                      IF gpoField.ForeignKey.nil THEN acc.foreignKeys
                      ELSE Append(acc.foreignKeys,
                                  ForeignKey(gpoField.ColumnName,
                                             tablePrefix \o gpoField.ForeignKey.Table
                                                 \o "(" \o gpoField.ForeignKey.Column \o ")",
                                             gpoField.ForeignKey.OnDelete))]
    IN  IF i > Len(s.fields) THEN acc
        ELSE columnsLoop(s, tablePrefix, i + 1,
                         step(s.fields[i], parseGPOTag(s.fields[i])))

\* Variant: the default id column appended after the annotated fields.
getColumnsDefaultLast(s, tablePrefix) ==
    LET withDefault(r) ==
            IF \E i \in 1..Len(r.columns) : r.columns[i].PrimaryKey THEN r
            ELSE [r EXCEPT !.columns =
                     @ \o <<Column(DefaultIDField, "UUID", TRUE, FALSE, FALSE, 0)>>]
    IN  withDefault(columnsLoop(s, tablePrefix, 1,
                                [columns |-> <<>>, foreignKeys |-> <<>>]))

getColumnsAndForeignKeysFromStructWithPrefix(s, tablePrefix) ==
    LET withDefault(r) ==
            IF \E i \in 1..Len(r.columns) : r.columns[i].PrimaryKey THEN r
            ELSE [r EXCEPT !.columns =
                     <<Column(DefaultIDField, "UUID", TRUE, FALSE, FALSE, 0)>> \o @]
    IN  withDefault(columnsLoop(s, tablePrefix, 1,
                                [columns |-> <<>>, foreignKeys |-> <<>>]))

validateOnDeleteText(text) ==
    ToUpper(text) \in {"NO ACTION", "RESTRICT", "CASCADE", "SET NULL", "SET DEFAULT"}

RECURSIVE createColumnsLoop(_, _, _)
createColumnsLoop(columns, i, sql) ==
    IF i > Len(columns) THEN sql
    ELSE createColumnsLoop(columns, i + 1,
             sql \o columns[i].Name \o " " \o columns[i].Type
                 \o " " \o (IF columns[i].Null THEN "NULL" ELSE "NOT NULL")
                 \o " " \o (IF columns[i].Unique THEN "UNIQUE" ELSE "")
                 \o " " \o (IF columns[i].PrimaryKey THEN "PRIMARY KEY" ELSE "") \o ",")

\* The loop of _createTable over the foreign keys; it stops at the first
\* invalid ON DELETE text with the error set.
RECURSIVE createForeignKeysLoop(_, _, _)
createForeignKeysLoop(foreignKeys, i, acc) ==
    LET clause(fk, cut) ==
            "FOREIGN KEY (" \o fk.ColumnName \o ") REFERENCES "
                \o SubSeq(fk.References, 1, cut - 1) \o "("
                \o TrimSuffix(SubSeq(fk.References, cut + 1, Len(fk.References)), ")")
                \o ")"
                \o (IF fk.OnDelete # "" THEN " ON DELETE " \o ToUpper(fk.OnDelete) ELSE "")
                \o ","
        step(fk) ==
            IF fk.OnDelete # "" /\ ~validateOnDeleteText(fk.OnDelete)
            THEN [sql |-> acc.sql, err |-> "invalid ON DELETE clause: " \o fk.OnDelete]
            ELSE createForeignKeysLoop(foreignKeys, i + 1,
                     [sql |-> acc.sql \o clause(fk, StringsIndex(fk.References, "(")),
                      err |-> ""])
    IN  IF i > Len(foreignKeys) THEN acc ELSE step(foreignKeys[i])

\* What a schema call did: the statements it executed and the error returned.
_createTable(table, drv) ==
    LET exec(r) ==
            IF r.err # "" THEN [executed |-> <<>>, err |-> r.err]
            ELSE [executed |-> <<TrimSuffix(r.sql, ",") \o ")">>,
                  err |-> IF drv.kind = "exec error" THEN "exec" ELSE ""]
    IN  IF table.Name = ""
        THEN [executed |-> <<>>, err |-> "table name cannot be empty"]
        ELSE exec(createForeignKeysLoop(table.ForeignKeys, 1,
                      [sql |-> createColumnsLoop(table.Columns, 1,
                                   "CREATE TABLE IF NOT EXISTS " \o table.Name \o " ("),
                       err |-> ""]))

\* PostgreSQLConnector.CreateTable over the gpo derivation.
CreateTable(s, model, drv) ==
    LET create(r) ==
            _createTable([Name |-> getTableNameFromModel(s.TablePrefix, model),
                          Columns |-> r.columns, ForeignKeys |-> r.foreignKeys],
                         drv)
    IN  create(getColumnsAndForeignKeysFromStructWithPrefix(model, s.TablePrefix))

(***************************************************************************)
(* Migration.  `live` is the answer to the information_schema.columns      *)
(* query, a sequence of [column_name, data_type, is_nullable] rows as the   *)
(* database reports them; `drv` says whether the table exists and which    *)
(* call on the driver fails (failAt counts the Exec calls, 0 for none).    *)
(***************************************************************************)
\* The `for rows.Next()` loop of _alterTable: a later row of the same name
\* replaces an earlier one.
existingColumns(live) ==
    [name \in {live[k].column_name : k \in 1..Len(live)} |->
        LET row == live[CHOOSE k \in 1..Len(live) :
                            /\ live[k].column_name = name
                            /\ \A h \in 1..Len(live) : live[h].column_name = name => h <= k]
        IN  [Name |-> row.column_name, Type |-> row.data_type,
             Null |-> row.is_nullable = "YES"]]

\* The compare-and-alter loop, without the early returns: the statements in
\* the order they are handed to db.Exec.
RECURSIVE alterLoop(_, _, _, _)
alterLoop(table, existing, i, sqls) ==
    LET add(column) ==
            <<"ALTER TABLE " \o table.Name \o " ADD COLUMN " \o column.Name \o " "
                  \o column.Type \o " " \o (IF column.Null THEN "NULL" ELSE "NOT NULL")
                  \o " " \o (IF column.Unique THEN "UNIQUE" ELSE "")>>
        alter(column, existingCol) ==
            (IF existingCol.Type # column.Type
             THEN <<"ALTER TABLE " \o table.Name \o " ALTER COLUMN " \o column.Name
                        \o " TYPE " \o column.Type>>
             ELSE <<>>)
            \o (IF existingCol.Null # column.Null
                THEN <<"ALTER TABLE " \o table.Name \o " ALTER COLUMN " \o column.Name
                           \o " SET " \o (IF column.Null THEN "NULL" ELSE "NOT NULL")>>
                ELSE <<>>)
        step(column) ==
            IF column.Name \notin DOMAIN existing THEN add(column)
            ELSE alter(column, existing[column.Name])
    IN  IF i > Len(table.Columns) THEN sqls
        ELSE alterLoop(table, existing, i + 1, sqls \o step(table.Columns[i]))

\* _alterTable: every statement up to the first one whose Exec fails.
_alterTable(table, live, drv) ==
    LET exec(sqls) ==
            IF drv.failAt \in 1..Len(sqls)
            THEN [executed |-> SubSeq(sqls, 1, drv.failAt), err |-> "exec"]
            ELSE [executed |-> sqls, err |-> ""]
    IN  IF drv.kind = "query error" THEN [executed |-> <<>>, err |-> "query"]
        ELSE exec(alterLoop(table, existingColumns(live), 1, <<>>))

_migrateTable(table, live, drv) ==
    IF drv.kind = "exists error" THEN [executed |-> <<>>, err |-> "exists"]
    ELSE IF ~drv.exists
    THEN _createTable(table, [kind |-> IF drv.failAt = 1 THEN "exec error" ELSE "ok"])
    ELSE _alterTable(table, live, drv)

(***************************************************************************)
(* HTTP adapter.  `r` gives the value r.URL.Query().Get returns for each   *)
(* parameter, "" for a parameter the request lacks.                        *)
(***************************************************************************)
\* query.Limit, _ = strconv.Atoi(limit): the number, 0 when Atoi fails.
ParseQueryParamsFromRequest(r, query) ==
    [query EXCEPT
        !.Limit = IF r.limit # "" THEN Atoi(r.limit).n ELSE 10,
        !.Offset = IF r.offset # "" THEN Atoi(r.offset).n ELSE 0,
        !.Descending = (r.order = "desc"),
        !.OrderBy = IF r.order_by # "" THEN r.order_by ELSE @,
        !.SearchText = IF r.search # "" THEN r.search ELSE @]

(***************************************************************************)
(* Join engine.  The join entry points are called by connector_test.go but *)
(* their code is not among the sources; `join` follows the design's        *)
(* section 4.6, the named entry points what the tests observe.             *)
(***************************************************************************)
InnerJoin == "INNER JOIN"
LeftJoin == "LEFT JOIN"
RightJoin == "RIGHT JOIN"
FullJoin == "FULL OUTER JOIN"

\* SELECT aliased-cols FROM main joinTypeKeyword joinTable ON joinCondition
\* [WHERE ...]; a missing join type is an error before the statement is built.
join(s, props, drv) ==
    LET main == getTableNameFromModel(s.TablePrefix, props.MainTableModel)
        joined == getTableNameFromModel(s.TablePrefix, props.JoinTableModel)
        aliased(table, cols) ==
            [i \in 1..Len(cols) |->
                table \o "." \o cols[i] \o " AS \"" \o table \o "." \o cols[i] \o "\""]
        statement(where) ==
            "SELECT "
            \o StringsJoin(aliased(main, props.MainTableCols)
                             \o aliased(joined, props.JoinTableCols), ", ")
            \o " FROM " \o main \o " " \o props.JoinType \o " " \o joined
            \o " ON " \o props.JoinCondition
            \o (IF where.clause = "" THEN "" ELSE " WHERE " \o where.clause)
        run(where) ==
            [driver |-> <<DriverCall("db", "QueryContext", statement(where), where.args)>>,
             err |-> IF drv.kind = "ok" THEN "" ELSE "query"]
    IN  IF props.JoinType = ""
        THEN [driver |-> <<>>, err |-> "MissingJoinType"]
        ELSE run(buildConditions(props.WhereConditions, <<>>))

\* LeftJoinWithContext with a JoinProps that sets no JoinType returns the
\* rows of the LEFT JOIN (TestLeftJoinUserWithPermissions): the entry point
\* supplies its own join type.
LeftJoinWithContext(s, props, drv) ==
    join(s, [props EXCEPT !.JoinType = LeftJoin], drv)

\* The other named entry points are only seen called with their own join
\* type set; with none set they either supply it or report it missing.
otherJoinWithContext(s, props, own, supplies, drv) ==
    IF supplies THEN join(s, [props EXCEPT !.JoinType = own], drv)
    ELSE join(s, props, drv)

(***************************************************************************)
(* The database behind the driver: one table, created by CreateTable from  *)
(* a record type, holding its rows in insertion order.  It reads the       *)
(* statements the connector issues: INSERT INTO t (c,...) VALUES ($1,...)  *)
(* and SELECT c, ... FROM t [WHERE c = $k] [LIMIT n] [OFFSET m].  A SELECT *)
(* without ORDER BY returns the rows in an order of the database's choice  *)
(* (`order`, a permutation of the row numbers).                            *)
(***************************************************************************)
\* The text after the first occurrence of mark, "" when there is none.
TextAfter(s, mark) ==
    LET from(i) == IF i = 0 THEN "" ELSE SubSeq(s, i + Len(mark), Len(s))
    IN  from(StringsIndex(s, mark))

\* The text before the first occurrence of mark, all of it when there is none.
TextBefore(s, mark) ==
    LET upto(i) == IF i = 0 THEN s ELSE SubSeq(s, 1, i - 1)
    IN  upto(StringsIndex(s, mark))

ColumnNames(table) == {table.Columns[i].Name : i \in 1..Len(table.Columns)}

\* The table CreateTable makes for a record type, empty.
CreatedTable(s, model) ==
    [Name |-> getTableNameFromModel(s.TablePrefix, model),
     Columns |-> getColumnsAndForeignKeysFromStructWithPrefix(model, s.TablePrefix).columns,
     rows |-> <<>>]

\* Exec of an INSERT: the new table and the error ("" for none).
dbExec(table, sql, args) ==
    LET stored(cols) ==
            [c \in ColumnNames(table) |->
                IF \E i \in 1..Len(cols) : cols[i] = c
                THEN args[CHOOSE i \in 1..Len(cols) : cols[i] = c]
                ELSE NullV]
        keys == {table.Columns[i].Name : i \in {j \in 1..Len(table.Columns) :
                                                   table.Columns[j].PrimaryKey}}
        append(name, cols, row) ==
            IF name # table.Name THEN [table |-> table, err |-> "relation does not exist"]
            ELSE IF \E i \in 1..Len(cols) : cols[i] \notin ColumnNames(table)
            THEN [table |-> table, err |-> "column does not exist"]
            ELSE IF \E i \in 1..Len(table.Columns) :
                        ~table.Columns[i].Null /\ row[table.Columns[i].Name] = NullV
            THEN [table |-> table, err |-> "null value violates not-null constraint"]
            ELSE IF \E k \in 1..Len(table.rows) : \A c \in keys : table.rows[k][c] = row[c]
            THEN [table |-> table, err |-> "duplicate key"]
            ELSE [table |-> [table EXCEPT !.rows = Append(@, row)], err |-> ""]
        parsed(name, cols) == append(name, cols, stored(cols))
        split(parts) == [i \in 1..Len(parts) |-> TrimSpace(parts[i])]
    IN  parsed(TextBefore(TextAfter(sql, "INSERT INTO "), " ("),
               split(StringsSplit(TextBefore(TextAfter(sql, " ("), ") VALUES"), ",")))

\* Query of a SELECT: the driver's answer.
dbQuery(table, sql, args, order) ==
    LET failed == [kind |-> "query error", columns |-> <<>>, rows |-> <<>>, delivered |-> 0]
        answer(columns, rows) ==
            [kind |-> "rows", columns |-> columns, delivered |-> Len(rows),
             rows |-> [k \in 1..Len(rows) |->
                          [i \in 1..Len(columns) |-> rows[k][columns[i]]]]]
        page(rows, limit, offset) ==
            SubSeq(rows, offset + 1,
                   IF limit > 0 /\ offset + limit < Len(rows) THEN offset + limit
                   ELSE Len(rows))
        matches(row, cond) ==
            cond = <<>> \/ row[cond[1]] = args[Atoi(SubSeq(cond[3], 2, Len(cond[3]))).n]
        select(columns, name, cond, limit, offset) ==
            IF name # table.Name
               \/ (\E i \in 1..Len(columns) : columns[i] \notin ColumnNames(table))
               \/ (cond # <<>> /\ (Len(cond) # 3 \/ cond[1] \notin ColumnNames(table)
                                   \/ cond[2] # "="))
            THEN failed
            ELSE answer(columns,
                        page(SelectSeq([k \in 1..Len(order) |-> table.rows[order[k]]],
                                       LAMBDA row : matches(row, cond)),
                             limit, offset))
        projection(text) ==
            IF text = "*" THEN [i \in 1..Len(table.Columns) |-> table.Columns[i].Name]
            ELSE StringsSplit(text, ", ")
        words(text) == IF text = "" THEN <<>> ELSE StringsSplit(text, " ")
    IN  select(projection(TextBefore(TextAfter(sql, "SELECT "), " FROM ")),
               TextBefore(TextAfter(sql, " FROM "), " "),
               words(TextBefore(TextBefore(TextAfter(sql, " WHERE "), " LIMIT "),
                                " OFFSET ")),
               Atoi(TextBefore(TextAfter(sql, " LIMIT "), " ")).n,
               Atoi(TextAfter(sql, " OFFSET ")).n)

(***************************************************************************)
(* Inputs: record instances, projections, tables.                          *)
(***************************************************************************)
\* README "GPO Tag System": custom primary key first, an untagged field last.
UserModel(v) ==
    Model("User", <<Field("ID", "UUID", [gpo |-> "id,pk"], v),
                    Field("Email", "string", [gpo |-> "email,unique"], v),
                    Field("Age", "int", [gpo |-> "age"], IntV(1)),
                    Field("Cache", "string", [json |-> "-"], v)>>)

\* Primary key in the middle, under a column that is not named id.
ProfileModel(v) ==
    Model("UserProfile", <<Field("UserID", "UUID", [gpo |-> "user_id,fk(user:id)"], v),
                           Field("PID", "UUID", [gpo |-> "pid,pk"], v),
                           Field("Bio", "string", [gpo |-> "bio,length(500),nullable"], v)>>)

\* No field marked pk.
PostModel(v) ==
    Model("Post", <<Field("Title", "string", [gpo |-> "title,length(200)"], v),
                    Field("Slug", "string", [gpo |-> "slug,unique"], v)>>)

\* The record type of connector_test.go: db_column tags only.
TestUserModel(v) ==
    Model("TestUser", <<Field("ID", "UUID", [db_column |-> "id", db_pk |-> ""], v),
                        Field("Email", "string", [db_column |-> "email"], v)>>)

\* Both tag systems on the same fields.
TestModelModel(v) ==
    Model("TestModel", <<Field("ID", "UUID", [db_column |-> "id", gpo |-> "id,pk"], v),
                         Field("StringValue", "string",
                               [db_column |-> "string_value", gpo |-> "string_value"], v)>>)

ModelsWith(v) ==
    {UserModel(v), ProfileModel(v), PostModel(v), TestUserModel(v), TestModelModel(v)}

ModelInputs == ModelsWith(StrV("v1"))

TableInputs == {"gpo_user"}

ColumnInputs == {"id", "email", "age", "missing"}

\* SPECS
InitCond ==
    /\ input \in {[fn |-> "conditions", conditions |-> c, searchFields |-> sf,
                   searchText |-> st, existingArgs |-> ea] :
                      c \in SeqsUpTo(CondInputs, MaxConds), sf \in SearchFieldInputs,
                      st \in SearchTextInputs, ea \in ExistingArgsInputs}
    /\ output = NoOutput
    /\ qb = NewQueryBuilder
    /\ res = NoResult
    /\ calls = 0

CallBuildConditions ==
    /\ input.fn = "conditions"
    /\ output = NoOutput
    /\ output' = [fn |-> "buildConditions"]
                   @@ buildConditions(input.conditions, input.existingArgs)
    /\ UNCHANGED <<input, qb, res, calls>>

CallBuildConditionsWithSearch ==
    /\ input.fn = "conditions"
    /\ output = NoOutput
    /\ output' = [fn |-> "buildConditionsWithSearch"]
                   @@ buildConditionsWithSearch(input.conditions, input.searchFields,
                                                input.searchText, input.existingArgs)
    /\ UNCHANGED <<input, qb, res, calls>>

NextCond == CallBuildConditions \/ CallBuildConditionsWithSearch

SpecCond == InitCond /\ [][NextCond]_vars

(***************************************************************************)
(* Specification SpecStmt: buildInsertStmt and buildUpdateStmt applied to  *)
(* bounded inputs.                                                         *)
(***************************************************************************)
InsertInputs ==
    {[fn |-> "insert", params |-> [Table |-> t, Fields |-> f], model |-> m] :
        t \in TableInputs, m \in ModelInputs,
        f \in SeqsUpTo(ColumnInputs, MaxFields)}
    \cup {[fn |-> "insert",
           params |-> [Table |-> t, Fields |-> parseTags(m, <<>>).fields],
           model |-> m] : t \in TableInputs, m \in ModelInputs}

UpdateInputs ==
    {[fn |-> "update", params |-> [Table |-> t, Conditions |-> c], model |-> m] :
        t \in TableInputs, m \in ModelInputs, c \in SeqsUpTo(CondInputs, MaxConds)}

InitStmt ==
    /\ input \in InsertInputs \cup UpdateInputs
    /\ output = NoOutput
    /\ qb = NewQueryBuilder
    /\ res = NoResult
    /\ calls = 0

CallBuildInsertStmt ==
    /\ input.fn = "insert"
    /\ output = NoOutput
    /\ output' = [fn |-> "buildInsertStmt"] @@ buildInsertStmt(input.params, input.model)
    /\ UNCHANGED <<input, qb, res, calls>>

CallBuildUpdateStmt ==
    /\ input.fn = "update"
    /\ output = NoOutput
    /\ output' = [fn |-> "buildUpdateStmt"] @@ buildUpdateStmt(input.params, input.model)
    /\ UNCHANGED <<input, qb, res, calls>>

NextStmt == CallBuildInsertStmt \/ CallBuildUpdateStmt

SpecStmt == InitStmt /\ [][NextStmt]_vars


(***************************************************************************)
(* Specification SpecTag: parseGPOTag applied to bounded struct fields.    *)
(***************************************************************************)
OptionInputs ==
    {"pk", "unique", "nullable", "length(50)", "fk(user:id)", "fk(user:id,cascade)",
     " pk ", "length(x)", "fk(userid)"}

TagText(opts) == StringsJoin(<<"user_id">> \o opts, ",")

TagInputs ==
    {[fn |-> "tag", opts |-> opts,
      field |-> Field("UserID", "UUID", [gpo |-> TagText(opts)], StrV("v1"))] :
        opts \in SeqsUpTo(OptionInputs, MaxOpts)}
    \cup {[fn |-> "tag", opts |-> <<>>,
           field |-> Field("UserID", "UUID", [json |-> "user_id"], StrV("v1"))]}

InitTag ==
    /\ input \in TagInputs
    /\ output = NoOutput
    /\ qb = NewQueryBuilder
    /\ res = NoResult
    /\ calls = 0

CallParseGPOTag ==
    /\ input.fn = "tag"
    /\ output = NoOutput
    /\ output' = [fn |-> "parseGPOTag", gpoField |-> parseGPOTag(input.field)]
    /\ UNCHANGED <<input, qb, res, calls>>

NextTag == CallParseGPOTag

SpecTag == InitTag /\ [][NextTag]_vars


(***************************************************************************)
(* Specification SpecQuery: buildQuery and buildAdvancedQuery applied to   *)
(* bounded DatabaseQuery values.                                           *)
(***************************************************************************)
QueryCondInputs ==
    {Condition("age", "=", IntV(1)), Condition("name", "LIKE", StrV("v1")),
     Condition("age", "IN", SliceV([j \in 1..MaxSlice |-> IntV(j)]))}

QueryInputs ==
    {[fn |-> "query",
      params |-> [Table |-> t, fields |-> f, Conditions |-> c, OrderBy |-> o[1],
                  Descending |-> o[2], Limit |-> l, Offset |-> off,
                  SearchFields |-> sf, SearchText |-> st]] :
        t \in TableInputs \cup {""}, f \in {<<>>, <<"id", "email">>},
        c \in SeqsUpTo(QueryCondInputs, MaxConds),
        o \in {<<"", FALSE>>, <<"age", FALSE>>, <<"age", TRUE>>},
        l \in 0..MaxPage, off \in 0..MaxPage,
        sf \in SearchFieldInputs, st \in SearchTextInputs}

InitQuery ==
    /\ input \in QueryInputs
    /\ output = NoOutput
    /\ qb = NewQueryBuilder
    /\ res = NoResult
    /\ calls = 0

CallBuildQuery ==
    /\ input.fn = "query"
    /\ output = NoOutput
    /\ output' = [fn |-> "buildQuery"] @@ buildQuery(input.params)
    /\ UNCHANGED <<input, qb, res, calls>>

CallBuildAdvancedQuery ==
    /\ input.fn = "query"
    /\ output = NoOutput
    /\ output' = [fn |-> "buildAdvancedQuery"] @@ buildAdvancedQuery(input.params)
    /\ UNCHANGED <<input, qb, res, calls>>

NextQuery == CallBuildQuery \/ CallBuildAdvancedQuery

SpecQuery == InitQuery /\ [][NextQuery]_vars

(***************************************************************************)
(* Specification SpecBuilder: a QueryBuilder driven through its fluent     *)
(* methods, at most MaxCalls of them, and built at any point.              *)
(***************************************************************************)
BuilderModels == {UserModel(StrV("v1")), PostModel(StrV("v1"))}

BuilderValues == {[email |-> StrV("v1"), age |-> IntV(1)]}

Fluent(b) ==
    /\ calls < MaxCalls
    /\ qb' = b
    /\ calls' = calls + 1
    /\ res' = NoResult
    /\ UNCHANGED <<input, output>>

CallSelect == \E fields \in {<<>>, <<"id", "email">>} : Fluent(Select(qb, fields))

CallFrom == \E table \in TableInputs : Fluent(From(qb, table))

CallJoin ==
    \E a \in {<<"gpo_post", "gpo_post.user_id = gpo_user.id">>} :
        Fluent([qb EXCEPT !.joins = Append(@, "JOIN " \o a[1] \o " ON " \o a[2])])

CallLeftJoin ==
    \E a \in {<<"gpo_post", "gpo_post.user_id = gpo_user.id">>} :
        Fluent([qb EXCEPT !.joins = Append(@, "LEFT JOIN " \o a[1] \o " ON " \o a[2])])

CallRightJoin ==
    \E a \in {<<"gpo_post", "gpo_post.user_id = gpo_user.id">>} :
        Fluent([qb EXCEPT !.joins = Append(@, "RIGHT JOIN " \o a[1] \o " ON " \o a[2])])

CallFullJoin ==
    \E a \in {<<"gpo_post", "gpo_post.user_id = gpo_user.id">>} :
        Fluent([qb EXCEPT !.joins = Append(@, "FULL OUTER JOIN " \o a[1] \o " ON " \o a[2])])

CallWhere ==
    \E c \in {Condition("age", "=", v) : v \in IntVals}
                \cup {Condition("name", "LIKE", IntV(1))} :
        Fluent(Where(qb, c.Field, c.Operator, c.Value))

CallWhereIn ==
    \E values \in {SliceV([j \in 1..MaxSlice |-> IntV(j)]), IntV(1)} :
        Fluent([qb EXCEPT !.conditions = Append(@, Condition("age", "IN", values))])

CallWhereNotIn ==
    \E values \in {SliceV(<<IntV(1)>>)} :
        Fluent([qb EXCEPT !.conditions = Append(@, Condition("age", "NOT IN", values))])

CallWhereLike ==
    \E v \in StrVals :
        Fluent([qb EXCEPT !.conditions = Append(@, Condition("name", "LIKE", StrV(v.s)))])

CallSearch ==
    \E a \in {<<<<"name">>, "q">>, <<<<"name", "email">>, "q">>, <<<<"name">>, "">>} :
        Fluent(Search(qb, a[1], a[2]))

CallOrderBy == Fluent(OrderBy(qb, "age", "desc"))

CallOrderByAsc == Fluent(OrderByAsc(qb, "name"))

CallOrderByDesc == Fluent(OrderByDesc(qb, "name"))

CallGroupBy ==
    \E fields \in {<<"age">>} : Fluent([qb EXCEPT !.groupBy = @ \o fields])

CallHaving ==
    \E condition \in {"COUNT(*) > 1"} : Fluent([qb EXCEPT !.having = Append(@, condition)])

CallLimit == \E limit \in 0..MaxPage : Fluent(Limit(qb, limit))

CallOffset == \E offset \in 0..MaxPage : Fluent(Offset(qb, offset))

CallInsert == \E model \in BuilderModels : Fluent([qb EXCEPT !.queryType = "INSERT", !.insertModel = model])

CallInto == \E table \in TableInputs : Fluent([qb EXCEPT !.table = table])

CallValues == \E values \in BuilderValues : Fluent([qb EXCEPT !.values = values])

CallUpdate == \E table \in TableInputs : Fluent(Update(qb, table))

CallSet ==
    \E a \in {<<"email", v>> : v \in StrVals} \cup {<<"age", IntV(1)>>} :
        Fluent([qb EXCEPT !.values = [c \in DOMAIN @ \cup {a[1]} |->
                                      IF c = a[1] THEN a[2] ELSE @[c]]])

CallSetModel == \E model \in BuilderModels : Fluent(SetModel(qb, model))

CallDelete == Fluent([qb EXCEPT !.queryType = "DELETE"])

CallDeleteFrom == \E table \in TableInputs : Fluent(DeleteFrom(qb, table))

CallBuild ==
    /\ \E order \in RangeOrders(DOMAIN qb.values) :
           res' = [kind |-> "build", order |-> order] @@ Build(qb, order)
    /\ UNCHANGED <<input, output, qb, calls>>

InitBuilder ==
    /\ input = NoInput
    /\ output = NoOutput
    /\ qb = NewQueryBuilder
    /\ res = NoResult
    /\ calls = 0

NextBuilder ==
    \/ CallSelect \/ CallFrom
    \/ CallJoin \/ CallLeftJoin \/ CallRightJoin \/ CallFullJoin
    \/ CallWhere \/ CallWhereIn \/ CallWhereNotIn \/ CallWhereLike \/ CallSearch
    \/ CallOrderBy \/ CallOrderByAsc \/ CallOrderByDesc \/ CallGroupBy \/ CallHaving
    \/ CallLimit \/ CallOffset
    \/ CallInsert \/ CallInto \/ CallValues
    \/ CallUpdate \/ CallSet \/ CallSetModel
    \/ CallDelete \/ CallDeleteFrom
    \/ CallBuild

SpecBuilder == InitBuilder /\ [][NextBuilder]_vars


(***************************************************************************)
(* Specification SpecConn: the update and delete paths, through the        *)
(* connector and through a QueryBuilder, on bounded inputs.                *)
(***************************************************************************)
ConnectorInputs == {[TablePrefix |-> p] : p \in {"", "app_"}}

DriverOutcomes ==
    {[kind |-> k, n |-> 0] : k \in {"prepare error", "exec error", "rows error"}}
    \cup {[kind |-> "ok", n |-> n] : n \in 0..MaxRows}

ConditionsOrNilInputs ==
    {[kind |-> "nil", conditions |-> <<>>], [kind |-> "other", conditions |-> <<>>]}
    \cup {[kind |-> "conditions", conditions |-> c] :
             c \in SeqsUpTo(QueryCondInputs, MaxConds)}

\* What may have been set on a builder besides its conditions.
ExtrasInputs ==
    {[searchFields |-> sf, searchText |-> st, orderBy |-> o, limit |-> l, offset |-> off] :
        sf \in {<<>>, <<"name">>}, st \in SearchTextInputs, o \in {"", "age"},
        l \in {0, MaxPage}, off \in {0, MaxPage}}

withExtras(b, x) ==
    LET paged(c) == IF x.offset > 0 THEN Offset(c, x.offset) ELSE c
        limited(c) == IF x.limit > 0 THEN Limit(c, x.limit) ELSE c
        ordered(c) == IF x.orderBy # "" THEN OrderByAsc(c, x.orderBy) ELSE c
        searched(c) == IF Len(x.searchFields) > 0 \/ x.searchText # ""
                       THEN Search(c, x.searchFields, x.searchText) ELSE c
    IN  paged(limited(ordered(searched(b))))

ConnInputs ==
    {[fn |-> "update", s |-> s, model |-> m, conditionsOrNil |-> c] :
        s \in ConnectorInputs, m \in ModelInputs, c \in ConditionsOrNilInputs}
    \cup {[fn |-> "delete", s |-> s, model |-> m, condition |-> c] :
        s \in ConnectorInputs, m \in ModelInputs,
        c \in SeqsUpTo(QueryCondInputs, MaxConds)}
    \cup {[fn |-> "buildUpdate", model |-> m, conditions |-> c,
           qb |-> whereLoop(SetModel(Update(NewQueryBuilder, t), m), c, 1)] :
        t \in TableInputs, m \in ModelInputs,
        c \in SeqsUpTo(QueryCondInputs, MaxConds)}
    \cup {[fn |-> "buildDelete", conditions |-> c, extras |-> x,
           qb |-> withExtras(whereLoop(DeleteFrom(NewQueryBuilder, t), c, 1), x)] :
        t \in TableInputs, c \in SeqsUpTo(QueryCondInputs, MaxConds),
        x \in ExtrasInputs}

InitConn ==
    /\ input \in ConnInputs
    /\ output = NoOutput
    /\ qb = NewQueryBuilder
    /\ res = NoResult
    /\ calls = 0

CallUpdateWithContext ==
    /\ input.fn = "update"
    /\ output = NoOutput
    /\ \E drv \in DriverOutcomes :
           output' = [fn |-> "update"]
                       @@ update(input.s, input.model, input.conditionsOrNil, drv)
    /\ UNCHANGED <<input, qb, res, calls>>

CallDeleteWithContext ==
    /\ input.fn = "delete"
    /\ output = NoOutput
    /\ \E drv \in DriverOutcomes :
           output' = [fn |-> "delete"]
                       @@ delete(input.s, input.model, input.condition, drv)
    /\ UNCHANGED <<input, qb, res, calls>>

CallBuilderUpdate ==
    /\ input.fn = "buildUpdate"
    /\ output = NoOutput
    /\ output' = [fn |-> "buildUpdate"] @@ buildUpdate(input.qb, <<>>)
    /\ UNCHANGED <<input, qb, res, calls>>

CallBuilderDelete ==
    /\ input.fn = "buildDelete"
    /\ output = NoOutput
    /\ output' = [fn |-> "buildDelete"] @@ buildDelete(input.qb)
    /\ UNCHANGED <<input, qb, res, calls>>

NextConn ==
    \/ CallUpdateWithContext \/ CallDeleteWithContext
    \/ CallBuilderUpdate \/ CallBuilderDelete

SpecConn == InitConn /\ [][NextConn]_vars


(***************************************************************************)
(* Specification SpecSchema: schema derivation and CreateTable applied to  *)
(* record types generated from a set of field declarations.                *)
(***************************************************************************)
FieldDecls ==
    {Field("ID", "UUID", [gpo |-> "id,pk"], StrV("v1")),
     Field("Key", "UUID", [gpo |-> "id"], StrV("v1")),
     Field("PID", "UUID", [gpo |-> "pid,pk"], StrV("v1")),
     Field("Email", "string", [gpo |-> "email,unique"], StrV("v1")),
     Field("Mail", "string", [gpo |-> "email,length(50)"], StrV("v1")),
     Field("Bio", "string", [gpo |-> "bio,length(500),nullable"], StrV("v1")),
     Field("UserID", "UUID", [gpo |-> "user_id,fk(user:id)"], StrV("v1")),
     Field("OwnerID", "UUID", [gpo |-> "owner_id,fk(user:id,cascade)"], StrV("v1")),
     Field("AuthorID", "UUID", [gpo |-> "author_id,fk(user:id,DROP)"], StrV("v1")),
     Field("Cache", "string", [json |-> "-"], StrV("v1"))}

\* Record types: up to MaxDecls field declarations with distinct Go names.
SchemaModels ==
    {Model("Account", fields) :
        fields \in {f \in SeqsUpTo(FieldDecls, MaxDecls) :
                       /\ Len(f) > 0
                       /\ \A i, j \in 1..Len(f) : f[i].Name = f[j].Name => i = j}}

InitSchema ==
    /\ input \in {[fn |-> "schema", s |-> s, model |-> m] :
                     s \in ConnectorInputs, m \in SchemaModels}
    /\ output = NoOutput
    /\ qb = NewQueryBuilder
    /\ res = NoResult
    /\ calls = 0

CallGetColumnsAndForeignKeys ==
    /\ input.fn = "schema"
    /\ output = NoOutput
    /\ output' = [fn |-> "getColumnsAndForeignKeys"]
                   @@ getColumnsAndForeignKeysFromStructWithPrefix(input.model,
                                                                   input.s.TablePrefix)
    /\ UNCHANGED <<input, qb, res, calls>>

CallCreateTable ==
    /\ input.fn = "schema"
    /\ output = NoOutput
    /\ \E drv \in {[kind |-> "ok"], [kind |-> "exec error"]} :
           output' = [fn |-> "CreateTable"] @@ CreateTable(input.s, input.model, drv)
    /\ UNCHANGED <<input, qb, res, calls>>

NextSchema == CallGetColumnsAndForeignKeys \/ CallCreateTable

SpecSchema == InitSchema /\ [][NextSchema]_vars

(***************************************************************************)
(* Specification SpecExtract: parseTags called repeatedly by a caller that *)
(* keeps the column list it passes by reference, as all() does with        *)
(* queryProps.fields.                                                      *)
(***************************************************************************)
InitExtract ==
    /\ input \in {[fn |-> "extract", model |-> m, fields |-> <<>>] :
                     m \in ModelInputs \cup SchemaModels}
    /\ output = NoOutput
    /\ qb = NewQueryBuilder
    /\ res = NoResult
    /\ calls = 0

\* fieldMap := parseTags(model, &fields): *fields is updated in place.
CallParseTags ==
    /\ input.fn = "extract"
    /\ calls < MaxExtracts
    /\ LET extract(r) ==
               /\ input' = [input EXCEPT !.fields = r.fields]
               /\ output' = [fn |-> "parseTags", fields |-> r.fields,
                             fieldMap |-> r.fieldMap,
                             previous |-> IF output.fn = "parseTags"
                                          THEN <<[fields |-> output.fields,
                                                  fieldMap |-> output.fieldMap]>>
                                          ELSE <<>>]
       IN  extract(parseTags(input.model, input.fields))
    /\ calls' = calls + 1
    /\ UNCHANGED <<qb, res>>

NextExtract == CallParseTags

SpecExtract == InitExtract /\ [][NextExtract]_vars

(***************************************************************************)
(* Specification SpecScan: scanRowToModel applied to bounded result        *)
(* columns, column -> field maps and record values.                        *)
(***************************************************************************)
ScanColumnInputs == SeqsUpTo({"id", "email", "extra"}, MaxCols)

\* The map parseTags derives, a map naming a field the record lacks, and the
\* empty map.
ScanMapInputs ==
    {parseTags(UserModel(StrV("v1")), <<>>).fieldMap,
     [id |-> "ID", email |-> "Ghost"],
     [c \in {} |-> ""]}

\* reflect.ValueOf(model).Elem() is addressable, reflect.ValueOf(*model) is not.
ScanModelInputs ==
    {[addressable |-> a] @@ UserModel(StrV("v1")) : a \in BOOLEAN}

InitScan ==
    /\ input \in {[fn |-> "scan", columns |-> c, fieldMap |-> fm, modelVal |-> mv] :
                     c \in ScanColumnInputs, fm \in ScanMapInputs, mv \in ScanModelInputs}
    /\ output = NoOutput
    /\ qb = NewQueryBuilder
    /\ res = NoResult
    /\ calls = 0

CallScanRowToModel ==
    /\ input.fn = "scan"
    /\ output = NoOutput
    /\ output' = [fn |-> "scanRowToModel",
                  scanArgs |-> scanRowToModel(input.columns, input.fieldMap,
                                              input.modelVal)]
    /\ UNCHANGED <<input, qb, res, calls>>

NextScan == CallScanRowToModel

SpecScan == InitScan /\ [][NextScan]_vars

(***************************************************************************)
(* Specification SpecFind: All and AllWithTransaction on bounded           *)
(* destinations, query configurations and driver answers.  The destination *)
(* and the configuration are passed by reference: the call leaves its      *)
(* changes in `input`, and `output` keeps what the caller passed.          *)
(***************************************************************************)
ResultColumnInputs == {<<"id", "email", "age">>, <<"id", "email">>, <<"email", "extra", "id">>}

\* Wire values by column: a row of the column types, a row that needs
\* conversions (int to string, text to int, NULL in a discarded column) and
\* a row with NULL for a string field.
WireRowInputs ==
    {[id |-> StrV("u1"), email |-> StrV("a@x"), age |-> IntV(3), extra |-> StrV("x")],
     [id |-> StrV("u2"), email |-> IntV(5), age |-> StrV("42"), extra |-> NullV],
     [id |-> StrV("u3"), email |-> NullV, age |-> IntV(1), extra |-> IntV(1)]}

FindOutcomes ==
    {[kind |-> "query error", columns |-> <<>>, rows |-> <<>>, delivered |-> 0]}
    \cup UNION {{[kind |-> "rows", columns |-> c,
                  rows |-> [k \in 1..Len(w) |-> [i \in 1..Len(c) |-> w[k][c[i]]]],
                  delivered |-> d] : d \in 0..Len(w)} :
                   c \in ResultColumnInputs, w \in SeqsUpTo(WireRowInputs, MaxResult)}

\* nil, a slice passed by value, a pointer to a record, pointers to slices
\* of the record type (empty and not) and to a slice of another type.
DestinationInputs ==
    {[kind |-> "nil", elemKind |-> "", elem |-> "", items |-> <<>>],
     [kind |-> "value", elemKind |-> "slice", elem |-> "User", items |-> <<>>],
     [kind |-> "ptr", elemKind |-> "struct", elem |-> "User", items |-> <<>>],
     [kind |-> "ptr", elemKind |-> "slice", elem |-> "User", items |-> <<>>],
     [kind |-> "ptr", elemKind |-> "slice", elem |-> "User",
      items |-> <<UserModel(StrV("v2"))>>],
     [kind |-> "ptr", elemKind |-> "slice", elem |-> "Post", items |-> <<>>]}

QueryPropsInputs ==
    {[DatabaseQuery EXCEPT !.Model = UserModel(StrV("v1"))],
     [DatabaseQuery EXCEPT !.Model = UserModel(StrV("v1")), !.Table = "people",
                           !.Conditions = <<Condition("age", "=", IntV(1))>>,
                           !.Limit = MaxPage],
     [DatabaseQuery EXCEPT !.Model = UserModel(StrV("v1")), !.AllowPagination = TRUE,
                           !.Offset = MaxPage],
     [DatabaseQuery EXCEPT !.Model = UserModel(StrV("v1")), !.Limit = 1,
                           !.Offset = MaxPage]}

InitFind ==
    /\ input \in {[fn |-> "find", s |-> s, models |-> m, queryProps |-> q] :
                     s \in ConnectorInputs, m \in DestinationInputs,
                     q \in QueryPropsInputs}
    /\ output = NoOutput
    /\ qb = NewQueryBuilder
    /\ res = NoResult
    /\ calls = 0

CallAll ==
    /\ input.fn = "find"
    /\ output = NoOutput
    /\ \E drv \in FindOutcomes :
           LET returned(r) ==
                   /\ input' = [input EXCEPT !.models = r.models,
                                             !.queryProps = r.queryProps]
                   /\ output' = [fn |-> "All", tx |-> FALSE, drv |-> drv,
                                 models |-> input.models,
                                 queryProps |-> input.queryProps,
                                 driver |-> r.driver, err |-> r.err, panic |-> r.panic]
           IN  returned(all(input.s, input.models, input.queryProps, drv))
    /\ UNCHANGED <<qb, res, calls>>

CallAllWithTransaction ==
    /\ input.fn = "find"
    /\ output = NoOutput
    /\ \E drv \in FindOutcomes :
           LET returned(r) ==
                   /\ input' = [input EXCEPT !.models = r.models,
                                             !.queryProps = r.queryProps]
                   /\ output' = [fn |-> "AllWithTransaction", tx |-> TRUE, drv |-> drv,
                                 models |-> input.models,
                                 queryProps |-> input.queryProps,
                                 driver |-> r.driver, err |-> r.err, panic |-> r.panic]
           IN  returned(allWithTransaction(input.s, input.models, input.queryProps, drv))
    /\ UNCHANGED <<qb, res, calls>>

NextFind == CallAll \/ CallAllWithTransaction

SpecFind == InitFind /\ [][NextFind]_vars

(***************************************************************************)
(* Specification SpecTx: a caller's session on one connector.  The caller  *)
(* begins, commits and rolls back a transaction and calls the operations,  *)
(* those taking a transaction only while it is open.  `res` holds the      *)
(* state of the transaction, `output` the last call: its arguments, the    *)
(* driver's answer, the driver calls made and what was returned.  A call   *)
(* starts from a state in which no earlier return is held: what a call     *)
(* does depends on its arguments and the driver only.                      *)
(***************************************************************************)
SessionIdle == {"none", "BeginTx", "CommitTx", "RollbackTx"}

SessionModels == {UserModel(StrV("v1")), TestUserModel(StrV("v1"))}

ConditionOrIdInputs ==
    {[kind |-> "nil", value |-> NullV, conditions |-> <<>>],
     [kind |-> "id", value |-> StrV("v1"), conditions |-> <<>>],
     [kind |-> "conditions", value |-> NullV,
      conditions |-> <<Condition("email", "=", StrV("v1"))>>]}

\* The zero configuration, one with only a record type, one with a table.
SessionQueryInputs ==
    {DatabaseQuery,
     [DatabaseQuery EXCEPT !.Model = UserModel(StrV("v1"))],
     [DatabaseQuery EXCEPT !.Model = UserModel(StrV("v1")), !.Table = "people"]}

SessionDestinationInputs ==
    {m \in DestinationInputs : m.kind = "ptr" /\ m.elemKind = "slice" /\ m.elem = "User"}

\* A write's return.
Wrote(fn, tx, args, drv, r) ==
    [fn |-> fn, tx |-> tx, args |-> args, drv |-> drv, driver |-> r.driver,
     n |-> r.n, err |-> r.err, panic |-> r.panic, count |-> r.count,
     after |-> NilModel]

\* A read's return; `after` is the caller's record or destination.
Read(fn, tx, args, drv, r) ==
    [fn |-> fn, tx |-> tx, args |-> args, drv |-> drv, driver |-> r.driver,
     n |-> 0, err |-> r.err, panic |-> r.panic, count |-> FALSE,
     after |-> r.models]

InitTx ==
    /\ input = [fn |-> "session"]
    /\ output = NoOutput
    /\ qb = NewQueryBuilder
    /\ res = [kind |-> "session", tx |-> "none"]
    /\ calls = 0

CallBeginTx ==
    /\ res.kind = "session"
    /\ res.tx # "open"
    /\ res' = [res EXCEPT !.tx = "open"]
    /\ output' = [fn |-> "BeginTx"]
    /\ UNCHANGED <<input, qb, calls>>

CallCommitTx ==
    /\ res.kind = "session"
    /\ res.tx = "open"
    /\ res' = [res EXCEPT !.tx = "committed"]
    /\ output' = [fn |-> "CommitTx"]
    /\ UNCHANGED <<input, qb, calls>>

CallRollbackTx ==
    /\ res.kind = "session"
    /\ res.tx = "open"
    /\ res' = [res EXCEPT !.tx = "rolled back"]
    /\ output' = [fn |-> "RollbackTx"]
    /\ UNCHANGED <<input, qb, calls>>

CallConnInsert ==
    /\ res.kind = "session"
    /\ output.fn \in SessionIdle
    /\ \E s \in ConnectorInputs, model \in SessionModels, drv \in DriverOutcomes :
           output' = Wrote("Insert", FALSE, [s |-> s, model |-> model], drv,
                           insert(s, model, drv))
    /\ UNCHANGED <<input, qb, res, calls>>

CallInsertWithTransaction ==
    /\ res.kind = "session"
    /\ output.fn \in SessionIdle
    /\ res.tx = "open"
    /\ \E s \in ConnectorInputs, model \in SessionModels, drv \in DriverOutcomes :
           output' = Wrote("InsertWithTransaction", TRUE, [s |-> s, model |-> model], drv,
                           InsertWithTransactionAndContext(s, model, drv))
    /\ UNCHANGED <<input, qb, res, calls>>

CallConnUpdate ==
    /\ res.kind = "session"
    /\ output.fn \in SessionIdle
    /\ \E s \in ConnectorInputs, model \in SessionModels, drv \in DriverOutcomes,
          c \in ConditionsOrNilInputs :
           LET returned(r) ==
                   Wrote("Update", FALSE,
                         [s |-> s, model |-> model, conditionsOrNil |-> c], drv,
                         [driver |-> [i \in 1..Len(r.prepared) |->
                                         DriverCall("db", "prepare", r.prepared[i], <<>>)]
                                     \o [i \in 1..Len(r.executed) |->
                                         DriverCall("db", "exec", r.prepared[1],
                                                    r.executed[i])],
                          n |-> r.n, err |-> r.err, panic |-> r.panic, count |-> TRUE])
           IN  output' = returned(update(s, model, c, drv))
    /\ UNCHANGED <<input, qb, res, calls>>

CallUpdateWithTransaction ==
    /\ res.kind = "session"
    /\ output.fn \in SessionIdle
    /\ res.tx = "open"
    /\ \E s \in ConnectorInputs, model \in SessionModels, drv \in DriverOutcomes :
           output' = Wrote("UpdateWithTransaction", TRUE, [s |-> s, model |-> model], drv,
                           UpdateWithTransactionAndContext(s, model, drv))
    /\ UNCHANGED <<input, qb, res, calls>>

CallConnDelete ==
    /\ res.kind = "session"
    /\ output.fn \in SessionIdle
    /\ \E s \in ConnectorInputs, model \in SessionModels, drv \in DriverOutcomes,
          c \in SeqsUpTo(QueryCondInputs, MaxConds) :
           LET returned(r) ==
                   Wrote("Delete", FALSE, [s |-> s, model |-> model, condition |-> c], drv,
                         [driver |-> [i \in 1..Len(r.prepared) |->
                                         DriverCall("db", "prepare", r.prepared[i], <<>>)]
                                     \o [i \in 1..Len(r.executed) |->
                                         DriverCall("db", "exec", r.prepared[1],
                                                    r.executed[i])],
                          n |-> r.n, err |-> r.err, panic |-> r.panic, count |-> TRUE])
           IN  output' = returned(delete(s, model, c, drv))
    /\ UNCHANGED <<input, qb, res, calls>>

CallDeleteWithTransaction ==
    /\ res.kind = "session"
    /\ output.fn \in SessionIdle
    /\ res.tx = "open"
    /\ \E s \in ConnectorInputs, model \in SessionModels, drv \in DriverOutcomes,
          c \in SeqsUpTo(QueryCondInputs, MaxConds) :
           output' = Wrote("DeleteWithTransaction", TRUE,
                           [s |-> s, model |-> model, condition |-> c], drv,
                           DeleteWithTransactionAndContext(s, model, c, drv))
    /\ UNCHANGED <<input, qb, res, calls>>

CallFirst ==
    /\ res.kind = "session"
    /\ output.fn \in SessionIdle
    /\ \E s \in ConnectorInputs, model \in SessionModels, drv \in FindOutcomes,
          c \in ConditionOrIdInputs :
           output' = Read("First", FALSE, [s |-> s, model |-> model, conditionOrId |-> c],
                          drv, first(s, model, c, drv))
    /\ UNCHANGED <<input, qb, res, calls>>

CallFirstWithTransaction ==
    /\ res.kind = "session"
    /\ output.fn \in SessionIdle
    /\ res.tx = "open"
    /\ \E s \in ConnectorInputs, model \in SessionModels, drv \in FindOutcomes,
          c \in ConditionOrIdInputs :
           output' = Read("FirstWithTransaction", TRUE,
                          [s |-> s, model |-> model, conditionOrId |-> c],
                          drv, firstWithTransaction(s, model, c, drv))
    /\ UNCHANGED <<input, qb, res, calls>>

CallAllWithTransactionAndContext ==
    /\ res.kind = "session"
    /\ output.fn \in SessionIdle
    /\ res.tx = "open"
    /\ \E s \in ConnectorInputs, m \in SessionDestinationInputs,
          q \in SessionQueryInputs \ {DatabaseQuery}, drv \in FindOutcomes :
           output' = Read("AllWithTransaction", TRUE,
                          [s |-> s, models |-> m, queryProps |-> q],
                          drv, allWithTransaction(s, m, q, drv))
    /\ UNCHANGED <<input, qb, res, calls>>

CallQuery ==
    /\ res.kind = "session"
    /\ output.fn \in SessionIdle
    /\ \E q \in SessionQueryInputs, drv \in FindOutcomes :
           output' = Read("Query", FALSE, [queryProps |-> q], drv, Query(q, drv))
    /\ UNCHANGED <<input, qb, res, calls>>

NextTx ==
    \/ CallBeginTx \/ CallCommitTx \/ CallRollbackTx
    \/ CallConnInsert \/ CallInsertWithTransaction
    \/ CallConnUpdate \/ CallUpdateWithTransaction
    \/ CallConnDelete \/ CallDeleteWithTransaction
    \/ CallFirst \/ CallFirstWithTransaction
    \/ CallAllWithTransactionAndContext \/ CallQuery

SpecTx == InitTx /\ [][NextTx]_vars

(***************************************************************************)
(* Specification SpecStore: a connector on a database with one table,      *)
(* created for a record type.  Records are inserted, the record inserted   *)
(* last is read back by its primary-key value, and the table is read in    *)
(* two pages.  `res` holds the table, `output` the last call.  The driver  *)
(* answers each statement the way the database does (dbExec, dbQuery).     *)
(***************************************************************************)
StoreTypes == {"User", "UserProfile", "Post"}

\* Record k of a type: every key and unique field differs between records.
StoreRecord(type, k) ==
    IF type = "User" THEN UserModel(StrV("u" \o Itoa(k)))
    ELSE IF type = "UserProfile" THEN ProfileModel(StrV("u" \o Itoa(k)))
    ELSE PostModel(StrV("u" \o Itoa(k)))

\* The value of the field marked pk, the id passed to First.
PrimaryKeyValue(model) ==
    LET lowest(pks) == IF pks = {} THEN NullV
                      ELSE model.fields[CHOOSE i \in pks : \A h \in pks : i <= h].Value
    IN  lowest({i \in 1..Len(model.fields) :
                  ~parseGPOTag(model.fields[i]).nil
                  /\ parseGPOTag(model.fields[i]).IsPrimaryKey})

NoRows == [kind |-> "rows", columns |-> <<>>, rows |-> <<>>, delivered |-> 0]

\* The answer to the query among the driver calls `issued`.
Answered(table, issued, order) ==
    IF Len(issued) = 0 THEN NoRows
    ELSE dbQuery(table, issued[1].sql, issued[1].args, order)

PageProps(model, limit, offset) ==
    [DatabaseQuery EXCEPT !.Model = model, !.AllowPagination = TRUE,
                          !.Limit = limit, !.Offset = offset]

InitStore ==
    /\ \E s \in ConnectorInputs, type \in StoreTypes :
           /\ input = [fn |-> "store", s |-> s, type |-> type]
           /\ res = [kind |-> "store", table |-> CreatedTable(s, StoreRecord(type, 1))]
    /\ output = NoOutput
    /\ qb = NewQueryBuilder
    /\ calls = 0

CallStoreInsert ==
    /\ res.kind = "store"
    /\ Len(res.table.rows) < MaxStored
    /\ \E k \in 1..(Len(res.table.rows) + 1) :
           LET model == StoreRecord(input.type, k)
               returned(r, stored) ==
                   /\ res' = [res EXCEPT !.table = stored.table]
                   /\ output' = [fn |-> "Insert", model |-> model, err |-> r.err,
                                 driver |-> r.driver]
               executed(issued, stored) ==
                   returned(insert(input.s, model,
                                   IF stored.err = "" THEN [kind |-> "ok", n |-> 1]
                                   ELSE [kind |-> "exec error", n |-> 0]),
                            stored)
               exec(issued) ==
                   executed(issued,
                            IF Len(issued) < 2 THEN [table |-> res.table, err |-> ""]
                            ELSE dbExec(res.table, issued[2].sql, issued[2].args))
           IN  exec(insert(input.s, model, [kind |-> "ok", n |-> 1]).driver)
    /\ UNCHANGED <<input, qb, calls>>

CallStoreFirst ==
    /\ res.kind = "store"
    /\ output.fn = "Insert"
    /\ output.err = ""
    /\ \E order \in RangeOrders(1..Len(res.table.rows)) :
           LET conditionOrId == [kind |-> "id", value |-> PrimaryKeyValue(output.model),
                                 conditions |-> <<>>]
               returned(r) ==
                   output' = [fn |-> "First", inserted |-> output.model,
                              after |-> r.models, err |-> r.err, driver |-> r.driver]
               query(issued) ==
                   returned(first(input.s, reflectNew(output.model), conditionOrId,
                                  Answered(res.table, issued, order)))
           IN  query(first(input.s, reflectNew(output.model), conditionOrId, NoRows).driver)
    /\ UNCHANGED <<input, qb, res, calls>>

CallStorePageOne ==
    /\ res.kind = "store"
    /\ output.fn # "PageOne"
    /\ \E limit \in 1..MaxPage, order \in RangeOrders(1..Len(res.table.rows)) :
           /\ 2 * limit <= Len(res.table.rows)
           /\ LET dest == [kind |-> "ptr", elemKind |-> "slice", elem |-> input.type,
                           items |-> <<>>]
                  props == PageProps(StoreRecord(input.type, 1), limit, 0)
                  returned(r) ==
                      output' = [fn |-> "PageOne", limit |-> limit, order |-> order,
                                 page |-> r.models.items, err |-> r.err,
                                 driver |-> r.driver]
                  query(issued) ==
                      returned(all(input.s, dest, props,
                                   Answered(res.table, issued, order)))
              IN  query(all(input.s, dest, props, NoRows).driver)
    /\ UNCHANGED <<input, qb, res, calls>>

CallStorePageTwo ==
    /\ res.kind = "store"
    /\ output.fn = "PageOne"
    /\ \E order \in RangeOrders(1..Len(res.table.rows)) :
           LET dest == [kind |-> "ptr", elemKind |-> "slice", elem |-> input.type,
                        items |-> <<>>]
               props == PageProps(StoreRecord(input.type, 1), output.limit, output.limit)
               returned(r) ==
                   output' = [fn |-> "PageTwo", limit |-> output.limit,
                              one |-> output.page, oneErr |-> output.err,
                              oneOrder |-> output.order, order |-> order,
                              page |-> r.models.items, err |-> r.err,
                              driver |-> r.driver]
               query(issued) ==
                   returned(all(input.s, dest, props,
                                Answered(res.table, issued, order)))
           IN  query(all(input.s, dest, props, NoRows).driver)
    /\ UNCHANGED <<input, qb, res, calls>>

NextStore ==
    \/ CallStoreInsert \/ CallStoreFirst \/ CallStorePageOne \/ CallStorePageTwo

SpecStore == InitStore /\ [][NextStore]_vars

(***************************************************************************)
(* Specification SpecMigrate: _alterTable and _migrateTable on the table   *)
(* of a record type against bounded live tables.                           *)
(***************************************************************************)
\* The columns a live table may have, with the data types the database
\* reports: the ones the declared types of User are stored as, text for a
\* column whose type was changed, and a column the record type lacks.
LiveColumnInputs ==
    UNION {{[column_name |-> c[1], data_type |-> t, is_nullable |-> n] :
                  t \in {c[2], "text"}, n \in {"YES", "NO"}} :
              c \in {<<"id", "uuid">>, <<"email", "character varying">>,
                     <<"age", "integer">>, <<"legacy", "text">>}}

LiveInputs ==
    {live \in SeqsUpTo(LiveColumnInputs, MaxLive) :
        \A i, j \in 1..Len(live) : live[i].column_name = live[j].column_name => i = j}

MigrateDriverInputs ==
    {[kind |-> k, exists |-> TRUE, failAt |-> 0] : k \in {"query error", "exists error"}}
    \cup {[kind |-> "ok", exists |-> e, failAt |-> f] : e \in BOOLEAN, f \in 0..MaxLive}

MigrateTableInputs ==
    {[Name |-> getTableNameFromModel("", m),
      Columns |-> getColumnsAndForeignKeysFromStructWithPrefix(m, "").columns,
      ForeignKeys |-> getColumnsAndForeignKeysFromStructWithPrefix(m, "").foreignKeys] :
        m \in {UserModel(StrV("v1")), PostModel(StrV("v1"))}}

InitMigrate ==
    /\ input \in {[fn |-> "migrate", table |-> t, live |-> l] :
                     t \in MigrateTableInputs, l \in LiveInputs}
    /\ output = NoOutput
    /\ qb = NewQueryBuilder
    /\ res = NoResult
    /\ calls = 0

CallAlterTable ==
    /\ input.fn = "migrate"
    /\ output = NoOutput
    /\ \E drv \in {d \in MigrateDriverInputs : d.exists /\ d.kind # "exists error"} :
           output' = [fn |-> "_alterTable", drv |-> drv]
                       @@ _alterTable(input.table, input.live, drv)
    /\ UNCHANGED <<input, qb, res, calls>>

CallMigrateTable ==
    /\ input.fn = "migrate"
    /\ output = NoOutput
    /\ \E drv \in MigrateDriverInputs :
           output' = [fn |-> "_migrateTable", drv |-> drv]
                       @@ _migrateTable(input.table, input.live, drv)
    /\ UNCHANGED <<input, qb, res, calls>>

NextMigrate == CallAlterTable \/ CallMigrateTable

SpecMigrate == InitMigrate /\ [][NextMigrate]_vars

(***************************************************************************)
(* Specification SpecJoin: one call of a join entry point.                 *)
(***************************************************************************)
JoinPropsInputs ==
    {[MainTableModel |-> TestUserModel(StrV("v1")),
      JoinTableModel |-> UserModel(StrV("v1")),
      MainTableCols |-> m, JoinTableCols |-> <<"id">>,
      JoinCondition |-> "a.id = b.user_id",
      WhereConditions |-> w, JoinType |-> t] :
        m \in {<<"id">>, <<"id", "email">>},
        w \in SeqsUpTo(QueryCondInputs, MaxConds - 1),
        t \in {"", InnerJoin, LeftJoin, RightJoin, FullJoin}}

JoinDriverInputs == {[kind |-> k] : k \in {"ok", "query error"}}

InitJoin ==
    /\ input \in {[fn |-> "join", s |-> s, props |-> p] :
                     s \in ConnectorInputs, p \in JoinPropsInputs}
    /\ output = NoOutput
    /\ qb = NewQueryBuilder
    /\ res = NoResult
    /\ calls = 0

CallLeftJoinWithContext ==
    /\ input.fn = "join"
    /\ output = NoOutput
    /\ input.props.JoinType \in {"", LeftJoin}
    /\ \E drv \in JoinDriverInputs :
           output' = [fn |-> "LeftJoinWithContext"]
                       @@ LeftJoinWithContext(input.s, input.props, drv)
    /\ UNCHANGED <<input, qb, res, calls>>

CallInnerJoinWithContext ==
    /\ input.fn = "join"
    /\ output = NoOutput
    /\ input.props.JoinType \in {"", InnerJoin}
    /\ \E drv \in JoinDriverInputs, supplies \in BOOLEAN :
           output' = [fn |-> "InnerJoinWithContext"]
                       @@ otherJoinWithContext(input.s, input.props, InnerJoin, supplies, drv)
    /\ UNCHANGED <<input, qb, res, calls>>

CallRightJoinWithContext ==
    /\ input.fn = "join"
    /\ output = NoOutput
    /\ input.props.JoinType \in {"", RightJoin}
    /\ \E drv \in JoinDriverInputs, supplies \in BOOLEAN :
           output' = [fn |-> "RightJoinWithContext"]
                       @@ otherJoinWithContext(input.s, input.props, RightJoin, supplies, drv)
    /\ UNCHANGED <<input, qb, res, calls>>

CallFullJoinWithContext ==
    /\ input.fn = "join"
    /\ output = NoOutput
    /\ input.props.JoinType \in {"", FullJoin}
    /\ \E drv \in JoinDriverInputs, supplies \in BOOLEAN :
           output' = [fn |-> "FullJoinWithContext"]
                       @@ otherJoinWithContext(input.s, input.props, FullJoin, supplies, drv)
    /\ UNCHANGED <<input, qb, res, calls>>

NextJoin ==
    \/ CallInnerJoinWithContext
    \/ CallLeftJoinWithContext
    \/ CallRightJoinWithContext
    \/ CallFullJoinWithContext

SpecJoin == InitJoin /\ [][NextJoin]_vars

(***************************************************************************)
(* Specification SpecRequest: ParseQueryParamsFromRequest on one request.  *)
(***************************************************************************)
NumberTexts == {"", "2", "12", "-1", "abc", "2x"}

RequestInputs ==
    {[limit |-> l, offset |-> o, order_by |-> b, order |-> d, search |-> t] :
        l \in NumberTexts, o \in NumberTexts, b \in {"", "name"},
        d \in {"", "asc", "desc"}, t \in {"", "v1"}}

RequestQueryInputs ==
    {DatabaseQuery,
     [DatabaseQuery EXCEPT !.Limit = 7, !.Offset = 3, !.Descending = TRUE,
                           !.OrderBy = "age", !.SearchText = "old"]}

InitRequest ==
    /\ input \in {[fn |-> "request", r |-> r, query |-> q] :
                     r \in RequestInputs, q \in RequestQueryInputs}
    /\ output = NoOutput
    /\ qb = NewQueryBuilder
    /\ res = NoResult
    /\ calls = 0

\* The function returns nothing: `query` after the call is all a caller sees.
CallParseQueryParamsFromRequest ==
    /\ input.fn = "request"
    /\ output = NoOutput
    /\ output' = [fn |-> "ParseQueryParamsFromRequest", err |-> "",
                  query |-> ParseQueryParamsFromRequest(input.r, input.query)]
    /\ UNCHANGED <<input, qb, res, calls>>

NextRequest == CallParseQueryParamsFromRequest

SpecRequest == InitRequest /\ [][NextRequest]_vars

\* CLAIMS
Compiled ==
    /\ output.fn \in {"buildConditions", "buildConditionsWithSearch"}
    /\ ~output.panic

\* The values one condition binds, in binding order.
BoundValues(condition) ==
    IF condition.Operator \in {"IN", "NOT IN"} /\ condition.Value.t = "slice"
    THEN condition.Value.l
    ELSE IF condition.Operator \in {"LIKE", "NOT LIKE"}
    THEN <<StrV("%" \o condition.Value.s \o "%")>>
    ELSE <<condition.Value>>

RECURSIVE FlattenBound(_, _)
FlattenBound(conditions, i) ==
    IF i > Len(conditions) THEN <<>>
    ELSE BoundValues(conditions[i]) \o FlattenBound(conditions, i + 1)

SearchBound ==
    IF output.fn = "buildConditionsWithSearch" /\ input.searchText # ""
    THEN [i \in 1..Len(input.searchFields) |-> StrV("%" \o input.searchText \o "%")]
    ELSE <<>>

\* C1: the placeholders of the compiled clause are $k+1 .. $k+m in text order,
\* and the returned arguments are the k existing ones followed by the m new
\* ones, the i-th new one being the value bound at placeholder $k+i.
C1_SequentialPlaceholders ==
    Compiled =>
        LET k == Len(input.existingArgs)
            m == Len(output.args) - k
        IN  /\ m >= 0
            /\ SubSeq(output.args, 1, k) = input.existingArgs
            /\ Placeholders(output.clause) = [i \in 1..m |-> k + i]
            /\ SubSeq(output.args, k + 1, k + m)
                 = FlattenBound(input.conditions, 1) \o SearchBound

C1_Witness ==
    /\ Compiled
    /\ output.fn = "buildConditionsWithSearch"
    /\ Len(input.existingArgs) = 2
    /\ Len(output.args) >= 5
    /\ \E i \in 1..Len(input.conditions) :
          input.conditions[i].Operator = "IN" /\ Len(input.conditions[i].Value.l) = 2

\* The annotated fields of a record instance that are not the primary key,
\* in declaration order.
RECURSIVE SetFields(_, _)
SetFields(model, i) ==
    IF i > Len(model.fields) THEN <<>>
    ELSE LET g == parseGPOTag(model.fields[i])
         IN  (IF g.nil \/ g.IsPrimaryKey THEN <<>>
              ELSE <<[col |-> g.ColumnName, val |-> model.fields[i].Value]>>)
             \o SetFields(model, i + 1)

\* C5: buildUpdateStmt emits `col = $i` for every annotated non-pk field in
\* field order with i = 1..n; the arguments are the n SET values followed by
\* the WHERE arguments, whose placeholders start at $n+1.
C5_UpdateSetThenWhere ==
    (output.fn = "buildUpdateStmt" /\ ~output.panic) =>
        LET set == SetFields(input.model, 1)
            n == Len(set)
            m == Len(output.args) - n
            halves == StringsSplit(output.query, " WHERE ")
            where == FlattenBound(input.params.Conditions, 1)
        IN  /\ output.err = ""
            /\ halves[1] = "UPDATE " \o input.params.Table \o " SET "
                              \o StringsJoin([i \in 1..n |-> set[i].col \o " = $" \o Itoa(i)], ", ")
            /\ m = Len(where)
            /\ SubSeq(output.args, 1, n) = [i \in 1..n |-> set[i].val]
            /\ SubSeq(output.args, n + 1, n + m) = where
            /\ Len(halves) = (IF Len(input.params.Conditions) > 0 THEN 2 ELSE 1)
            /\ Len(halves) = 2 => Placeholders(halves[2]) = [i \in 1..m |-> n + i]

C5_Witness ==
    /\ output.fn = "buildUpdateStmt"
    /\ ~output.panic
    /\ input.model.type = "UserProfile"
    /\ Len(input.params.Conditions) = 2
    /\ Len(output.args) >= 5

\* The first field of the instance whose annotation names `col` (0 if none).
BackingField(model, col) ==
    LET names(j) == LET g == parseGPOTag(model.fields[j])
                    IN  ~g.nil /\ g.ColumnName = col
    IN  IF \E j \in 1..Len(model.fields) : names(j)
        THEN CHOOSE j \in 1..Len(model.fields) : names(j) /\ \A h \in 1..(j - 1) : ~names(h)
        ELSE 0

\* C7: for a projection of n columns buildInsertStmt returns
\* INSERT INTO table (c1,...,cn) VALUES ($1,...,$n) with args[i] the value of
\* the field whose annotation names the i-th column; a projected column
\* without backing field yields an error and no statement text.
C7_InsertProjection ==
    output.fn = "buildInsertStmt" =>
        LET cols == input.params.Fields
            n == Len(cols)
        IN  IF \A i \in 1..n : BackingField(input.model, cols[i]) # 0
            THEN /\ output.err = ""
                 /\ output.query = "INSERT INTO " \o input.params.Table \o " ("
                                      \o StringsJoin(cols, ",") \o ") VALUES ("
                                      \o StringsJoin([i \in 1..n |-> "$" \o Itoa(i)], ",") \o ")"
                 /\ Len(output.args) = n
                 /\ \A i \in 1..n :
                       output.args[i]
                         = input.model.fields[BackingField(input.model, cols[i])].Value
            ELSE output.err # "" /\ output.query = "" /\ output.args = <<>>

C7_Witness ==
    /\ output.fn = "buildInsertStmt"
    /\ output.err = ""
    /\ input.model.type = "User"
    /\ input.params.Fields = <<"age", "id">>
    /\ output.args = <<IntV(1), StrV("v1")>>

C7_WitnessUnmapped ==
    /\ output.fn = "buildInsertStmt"
    /\ output.err # ""
    /\ input.params.Fields = <<"id", "missing">>

\* Number of arguments one condition binds.
BoundCount(condition) ==
    IF condition.Operator \in {"IN", "NOT IN"} /\ condition.Value.t = "slice"
    THEN Len(condition.Value.l)
    ELSE 1

RECURSIVE SumSeq(_, _)
SumSeq(numbers, i) ==
    IF i > Len(numbers) THEN 0 ELSE numbers[i] + SumSeq(numbers, i + 1)

SumOver(conditions, F(_)) ==
    SumSeq([i \in 1..Len(conditions) |-> F(conditions[i])], 1)

InLength(condition) ==
    IF condition.Operator \in {"IN", "NOT IN"} THEN Len(condition.Value.l) ELSE 0

\* C2 as stated: len(C) + sum of len(value) over IN / NOT IN conditions +
\* number of search fields arguments are newly bound, with as many
\* placeholders in the clause.
C2_CountAsStated ==
    (Compiled /\ output.fn = "buildConditionsWithSearch") =>
        LET count == Len(input.conditions) + SumOver(input.conditions, InLength)
                        + Len(input.searchFields)
        IN  /\ Len(output.args) - Len(input.existingArgs) = count
            /\ Len(Placeholders(output.clause)) = count

\* C2 (amended): a condition binds len(value) arguments when it is IN / NOT IN
\* over a sequence and one argument otherwise; every search field binds one
\* argument when the search text is non-empty and none when it is empty; the
\* clause has exactly that many placeholders.
C2_BoundArgumentCount ==
    Compiled =>
        LET count == SumOver(input.conditions, BoundCount)
                        + (IF output.fn = "buildConditionsWithSearch" /\ input.searchText # ""
                           THEN Len(input.searchFields) ELSE 0)
        IN  /\ Len(output.args) - Len(input.existingArgs) = count
            /\ Len(Placeholders(output.clause)) = count

C2_Witness ==
    /\ Compiled
    /\ output.fn = "buildConditionsWithSearch"
    /\ Len(input.searchFields) = 2
    /\ input.searchText # ""
    /\ Len(input.conditions) = 2
    /\ input.conditions[1].Operator = "NOT IN"
    /\ Len(input.conditions[1].Value.l) = 2
    /\ Len(output.args) - Len(input.existingArgs) = 5

\* The shape of a compiled clause: the conditions AND-ed in input order,
\* then, when `searching`, one parenthesized group of `field LIKE $n` terms
\* joined by OR and AND-ed with them; nothing at all when there is neither.
ClauseShape(searching) ==
    LET nC == Len(input.conditions)
        top == StringsSplit(output.clause, " AND ")
    IN  IF nC = 0 /\ ~searching
        THEN output.clause = ""
        ELSE /\ Len(top) = nC + (IF searching THEN 1 ELSE 0)
             /\ \A i \in 1..nC :
                   /\ HasPrefix(top[i], input.conditions[i].Field \o " ")
                   /\ Len(Placeholders(top[i])) = BoundCount(input.conditions[i])
                   /\ ~Contains(top[i], " OR ")
             /\ searching =>
                   LET group == top[nC + 1]
                       terms == StringsSplit(SubSeq(group, 2, Len(group) - 1), " OR ")
                   IN  /\ HasPrefix(group, "(") /\ HasSuffix(group, ")")
                       /\ Len(terms) = Len(input.searchFields)
                       /\ \A j \in 1..Len(terms) :
                             /\ HasPrefix(terms[j], input.searchFields[j] \o " LIKE $")
                             /\ Len(Placeholders(terms[j])) = 1

\* C9 as stated: search fields, when present, form the parenthesized OR group.
C9_ShapeAsStated ==
    (Compiled /\ output.fn = "buildConditionsWithSearch") =>
        ClauseShape(Len(input.searchFields) > 0)

\* C9 (amended): conditions are AND-ed in input order; search fields, when
\* present and the search text is non-empty, form one parenthesized OR group
\* that is AND-ed with the condition group; with no condition and no search
\* group the clause is empty.
C9_WhereComposition ==
    (Compiled /\ output.fn = "buildConditionsWithSearch") =>
        ClauseShape(Len(input.searchFields) > 0 /\ input.searchText # "")

C9_Witness ==
    /\ Compiled
    /\ output.fn = "buildConditionsWithSearch"
    /\ Len(input.conditions) = 2
    /\ Len(input.searchFields) = 2
    /\ Contains(output.clause, " AND (name LIKE $")
    /\ Contains(output.clause, " OR email LIKE $")

HasOption(o) == \E i \in 1..Len(input.opts) : input.opts[i] = o

FkOptions == {o \in OptionInputs : HasPrefix(o, "fk(")}

\* C10: a tag with fk(T:C,A) yields a foreign key (T, C, A), a tag with
\* fk(T:C) a foreign key (T, C) without on-delete action; pk, unique,
\* nullable and length(n) may stand in any order beside it and each sets its
\* own attribute.
C10_TagOptions ==
    (output.fn = "parseGPOTag" /\ GPOTag \in DOMAIN input.field.Tag) =>
        LET g == output.gpoField
            onlyFk(o) == HasOption(o) /\ \A p \in FkOptions \ {o} : ~HasOption(p)
        IN  /\ ~g.nil
            /\ g.ColumnName = "user_id"
            /\ onlyFk("fk(user:id,cascade)") =>
                  g.ForeignKey = [nil |-> FALSE, Table |-> "user", Column |-> "id",
                                  OnDelete |-> "cascade"]
            /\ onlyFk("fk(user:id)") =>
                  g.ForeignKey = [nil |-> FALSE, Table |-> "user", Column |-> "id",
                                  OnDelete |-> ""]
            /\ HasOption("pk") => g.IsPrimaryKey
            /\ HasOption("unique") => g.IsUnique
            /\ HasOption("nullable") => g.IsNullable
            /\ HasOption("length(50)") => g.Length = 50


(***************************************************************************)
(* C3: statement text does not depend on bound values.                     *)
(***************************************************************************)
Hostile == "x' OR '1'='1"

RevalueScalar(v) == IF v.t = "string" THEN StrV(Hostile) ELSE IntV(v.n + 7)

Revalue(v) ==
    IF v.t = "slice" THEN SliceV([i \in 1..Len(v.l) |-> RevalueScalar(v.l[i])])
    ELSE RevalueScalar(v)

RevalueModel(model) ==
    [model EXCEPT !.fields = [i \in 1..Len(model.fields) |->
                                 [model.fields[i] EXCEPT !.Value = Revalue(@)]]]

ValueGroups == {"conditions", "search", "record", "values"}

\* The builder `b` with the values of the groups in `groups` replaced, shapes
\* kept: list lengths, value types and emptiness of the search text.
Revalued(b, groups) ==
    [b EXCEPT
        !.conditions = IF "conditions" \in groups
                       THEN [i \in 1..Len(b.conditions) |->
                                [b.conditions[i] EXCEPT !.Value = Revalue(@)]]
                       ELSE @,
        !.searchText = IF "search" \in groups /\ @ # "" THEN Hostile ELSE @,
        !.insertModel = IF "record" \in groups THEN RevalueModel(@) ELSE @,
        !.updateModel = IF "record" \in groups THEN RevalueModel(@) ELSE @,
        !.values = IF "values" \in groups
                   THEN [c \in DOMAIN b.values |-> Revalue(b.values[c])]
                   ELSE @]

\* An argument of the first run, as the second run must bind it: the replaced
\* value, wrapped in % when the first one was.
RevalueArg(v) ==
    IF v.t = "string" /\ Len(v.s) >= 2 /\ HasPrefix(v.s, "%") /\ HasSuffix(v.s, "%")
    THEN StrV("%" \o Hostile \o "%")
    ELSE Revalue(v)

UpdateIssued ==
    \/ /\ output.fn = "update"
       /\ input.conditionsOrNil.kind # "other"
       /\ Len(input.conditionsOrNil.conditions) = 0
       /\ Len(output.executed) = 1
    \/ /\ output.fn = "buildUpdate"
       /\ Len(input.conditions) = 0
       /\ output.err = ""

UpdateText == IF output.fn = "update" THEN output.prepared[1] ELSE output.query

UpdateArgs == IF output.fn = "update" THEN output.executed[1] ELSE output.args

\* The current value of the field mapped to `column` on the record instance.
ColumnValues(model, column) ==
    {model.fields[i].Value : i \in {j \in 1..Len(model.fields) :
        \/ parseGPOTag(model.fields[j]).ColumnName = column
        \/ TagGet(model.fields[j], "db_column") = column}}

\* C4: an UPDATE issued for a record instance without caller conditions ends
\* in WHERE <primary-key column> = $n, n the last argument, bound to the
\* primary-key field's current value.
C4_ImplicitPrimaryKeyWhere ==
    UpdateIssued =>
        LET pk == getPrimaryKeyField(input.model)
            n == Len(UpdateArgs)
        IN  /\ n >= 1
            /\ HasSuffix(UpdateText, " WHERE " \o pk \o " = $" \o Itoa(n))
            /\ UpdateArgs[n] \in ColumnValues(input.model, pk)

(***************************************************************************)
(* C6: DELETE and its WHERE clause.                                        *)
(***************************************************************************)
DeleteIssued ==
    \/ output.fn = "delete"
    \/ output.fn = "buildDelete" /\ output.err = "" /\ ~output.panic

DeleteConditions == IF output.fn = "delete" THEN input.condition ELSE input.conditions

DeleteTable ==
    IF output.fn = "delete" THEN getTableNameFromModel(input.s.TablePrefix, input.model)
    ELSE input.qb.table

DeleteText == IF output.fn = "delete" THEN output.prepared[1] ELSE output.query

DeleteArgLists == IF output.fn = "delete" THEN output.executed ELSE <<output.args>>

\* C6: a DELETE statement has a WHERE clause exactly when the condition list
\* is non-empty; with none it is `DELETE FROM <table>` with no arguments,
\* whatever search, ordering, limit and offset the builder carries.
C6_DeleteWhere ==
    DeleteIssued =>
        /\ Contains(DeleteText, " WHERE ") <=> Len(DeleteConditions) > 0
        /\ HasPrefix(DeleteText, "DELETE FROM " \o DeleteTable)
        /\ Len(DeleteConditions) = 0 =>
               /\ DeleteText = "DELETE FROM " \o DeleteTable
               /\ \A i \in 1..Len(DeleteArgLists) : DeleteArgLists[i] = <<>>
        /\ Len(DeleteConditions) > 0 =>
               /\ HasPrefix(DeleteText, "DELETE FROM " \o DeleteTable \o " WHERE ")
               /\ Len(Placeholders(DeleteText)) =
                      IF output.fn = "delete" THEN Len(DeleteConditions)
                      ELSE SumOver(DeleteConditions, BoundCount)
               /\ \A i \in 1..Len(DeleteArgLists) :
                      Len(DeleteArgLists[i]) = Len(Placeholders(DeleteText))
        /\ \A clause \in {" ORDER BY ", " LIMIT ", " OFFSET ", " OR "} :
               ~Contains(DeleteText, clause)

\* A builder carrying search fields, search text, ordering, limit and offset
\* but no condition builds the bare DELETE.
C6_Witness ==
    /\ output.fn = "buildDelete"
    /\ Len(input.conditions) = 0
    /\ Len(input.qb.searchFields) > 0 /\ input.qb.searchText # ""
    /\ Len(input.qb.orderBy) > 0 /\ input.qb.limit > 0 /\ input.qb.offset > 0
    /\ output.query = "DELETE FROM gpo_user"
    /\ output.args = <<>>

(***************************************************************************)
(* C8: LIMIT and OFFSET of SELECT.                                         *)
(***************************************************************************)
WhereArgCount(params) ==
    SumOver(params.Conditions, BoundCount)
    + (IF params.SearchText # "" THEN Len(params.SearchFields) ELSE 0)

\* C8: a SELECT with explicit limit L > 0 and / or offset O > 0 carries them
\* as placeholders numbered directly after the WHERE arguments, L then O in
\* the argument list, and not as numerals in the text.
C8_LimitOffsetBound ==
    output.fn = "buildAdvancedQuery" /\ ~output.panic /\ output.query # "" =>
        LET L == input.params.Limit
            O == input.params.Offset
            w == WhereArgCount(input.params)
            o == IF L > 0 THEN w + 2 ELSE w + 1
        IN  /\ L > 0 => /\ Contains(output.query, " LIMIT $" \o Itoa(w + 1))
                        /\ Len(output.args) >= w + 1
                        /\ output.args[w + 1] = IntV(L)
                        /\ ~Contains(output.query, " LIMIT " \o Itoa(L))
            /\ O > 0 => /\ Contains(output.query, " OFFSET $" \o Itoa(o))
                        /\ Len(output.args) >= o
                        /\ output.args[o] = IntV(O)
                        /\ ~Contains(output.query, " OFFSET " \o Itoa(O))


(***************************************************************************)
(* Schema claims.                                                          *)
(***************************************************************************)
\* The on-delete text written in the fk(...) annotation of a tag: the text
\* after the first comma between "fk(" and the next ")", "" when there is
\* no such text.
AnnotatedOnDelete(tag) ==
    LET p == StringsIndex(tag, "fk(")
        rest == SubSeq(tag, p + 3, Len(tag))
        q == StringsIndex(rest, ")")
        content == SubSeq(rest, 1, q - 1)
        c == StringsIndex(content, ",")
    IN  IF p = 0 \/ q = 0 \/ c = 0 THEN ""
        ELSE TrimSpace(SubSeq(content, c + 1, Len(content)))

OnDeleteActions == {"NO ACTION", "RESTRICT", "CASCADE", "SET NULL", "SET DEFAULT"}

HasInvalidOnDelete(model) ==
    \E i \in 1..Len(model.fields) :
        /\ GPOTag \in DOMAIN model.fields[i].Tag
        /\ AnnotatedOnDelete(model.fields[i].Tag[GPOTag]) # ""
        /\ ToUpper(AnnotatedOnDelete(model.fields[i].Tag[GPOTag])) \notin OnDeleteActions

\* C11: when the record type carries a foreign-key annotation whose
\* on-delete text is not one of NO ACTION, RESTRICT, CASCADE, SET NULL,
\* SET DEFAULT (case-insensitively), CreateTable returns an error and
\* executes no statement.
C11_InvalidOnDeleteRejected ==
    (output.fn = "CreateTable" /\ HasInvalidOnDelete(input.model)) =>
        /\ output.err # ""
        /\ output.executed = <<>>

\* The annotated fields of a record type, in declaration order.
Annotated(model) ==
    SelectSeq([i \in 1..Len(model.fields) |-> parseGPOTag(model.fields[i])],
              LAMBDA g : ~g.nil)

\* C12: with no annotated field marked pk the derived column list is the
\* column id (UUID, PRIMARY KEY, NOT NULL) followed by the annotated fields
\* in declaration order; with a field marked pk it is exactly the annotated
\* fields in declaration order.
C12_ImplicitPrimaryKey ==
    output.fn = "getColumnsAndForeignKeys" =>
        LET annotated == Annotated(input.model)
            n == Len(annotated)
            columns == output.columns
        IN  IF \E k \in 1..n : annotated[k].IsPrimaryKey
            THEN /\ Len(columns) = n
                 /\ \A k \in 1..n : /\ columns[k].Name = annotated[k].ColumnName
                                    /\ columns[k].PrimaryKey = annotated[k].IsPrimaryKey
            ELSE /\ Len(columns) = n + 1
                 /\ columns[1].Name = "id"
                 /\ columns[1].Type = "UUID"
                 /\ columns[1].PrimaryKey
                 /\ ~columns[1].Null
                 /\ \A k \in 1..n : /\ columns[k + 1].Name = annotated[k].ColumnName
                                    /\ ~columns[k + 1].PrimaryKey

C12_Witness ==
    /\ output.fn = "getColumnsAndForeignKeys"
    /\ Len(output.columns) = 3
    /\ output.columns[1] = Column("id", "UUID", TRUE, FALSE, FALSE, 0)
    /\ output.columns[2].Name = "email"
    /\ output.columns[3].Name = "bio"

\* C13: the derived column list has pairwise distinct column names and at
\* most one column marked primary key.
C13_DescriptorInvariant ==
    output.fn = "getColumnsAndForeignKeys" =>
        LET columns == output.columns
        IN  /\ \A i, j \in 1..Len(columns) : columns[i].Name = columns[j].Name => i = j
            /\ Cardinality({i \in 1..Len(columns) : columns[i].PrimaryKey}) <= 1


(***************************************************************************)
(* Metadata extraction claims.                                             *)
(***************************************************************************)
\* C14: a repeated call of parseTags for the same record type yields the
\* same column list and the same column -> field map as the call before it.
C14_ExtractIdempotent ==
    (output.fn = "parseTags" /\ Len(output.previous) > 0) =>
        /\ output.fields = output.previous[1].fields
        /\ output.fieldMap = output.previous[1].fieldMap


(***************************************************************************)
(* Row materializer claims.                                                *)
(***************************************************************************)
\* C15: scanRowToModel returns one non-nil target per result column, in
\* column order; target i is the address of the mapped field when column i
\* is in the map and the field exists and is addressable, and a throwaway
\* target otherwise.
C15_ScanTargets ==
    output.fn = "scanRowToModel" =>
        /\ Len(output.scanArgs) = Len(input.columns)
        /\ \A i \in 1..Len(input.columns) :
               LET column == input.columns[i]
                   mapped == /\ column \in DOMAIN input.fieldMap
                             /\ \E j \in 1..Len(input.modelVal.fields) :
                                    input.modelVal.fields[j].Name = input.fieldMap[column]
                             /\ input.modelVal.addressable
               IN  /\ output.scanArgs[i].kind # "nil"
                   /\ mapped => output.scanArgs[i] =
                                    [kind |-> "field", name |-> input.fieldMap[column]]
                   /\ ~mapped => output.scanArgs[i].kind = "discard"

C15_Witness ==
    /\ output.fn = "scanRowToModel"
    /\ input.columns = <<"email", "extra", "id">>
    /\ output.scanArgs = <<[kind |-> "field", name |-> "Email"],
                           [kind |-> "discard", name |-> ""],
                           [kind |-> "field", name |-> "ID"]>>


(***************************************************************************)
(* Find claims.                                                            *)
(***************************************************************************)
\* The record rows.Scan makes of one row: a field no result column maps to
\* is zero, a mapped field holds the converted wire value of its column.
Materialized(model, columns, row) ==
    LET fieldMap == parseTags(model, <<>>).fieldMap
        zero == reflectNew(model)
        owned(j) == {i \in 1..Len(columns) :
                        /\ columns[i] \in DOMAIN fieldMap
                        /\ fieldMap[columns[i]] = model.fields[j].Name}
        last(cols) == CHOOSE i \in cols : \A h \in cols : h <= i
    IN  [zero EXCEPT !.fields =
            [j \in 1..Len(model.fields) |->
                IF owned(j) = {} THEN zero.fields[j]
                ELSE [zero.fields[j] EXCEPT
                         !.Value = convertAssign(zero.fields[j], row[last(owned(j))]).v]]]

FindReturned == output.fn \in {"All", "AllWithTransaction"}

\* The destination is a reference to a growable sequence of the record type.
DestinationFits ==
    /\ output.models.kind = "ptr"
    /\ output.models.elemKind = "slice"
    /\ output.models.elem = output.queryProps.Model.type

\* C16: when All / AllWithTransaction returns without error for a result of
\* n rows, the destination has grown by exactly n elements: the elements it
\* held are kept, and element k of the new ones is a fresh record holding
\* row k (fields no column maps to are zero, whatever the other rows and the
\* caller's record hold).
C16_AllGrowsByResult ==
    (FindReturned /\ DestinationFits /\ output.err = "" /\ ~output.panic
        /\ output.drv.kind = "rows") =>
        LET before == output.models.items
            after == input.models.items
            rows == output.drv.rows
        IN  /\ Len(after) = Len(before) + Len(rows)
            /\ SubSeq(after, 1, Len(before)) = before
            /\ \A k \in 1..Len(rows) :
                   after[Len(before) + k] =
                       Materialized(output.queryProps.Model, output.drv.columns, rows[k])

\* The same of the rows the driver delivered before rows.Next returned false.
DeliveredRowsAppended ==
    (FindReturned /\ DestinationFits /\ output.err = "" /\ ~output.panic
        /\ output.drv.kind = "rows") =>
        LET before == output.models.items
            after == input.models.items
            rows == SubSeq(output.drv.rows, 1, output.drv.delivered)
        IN  /\ Len(after) = Len(before) + Len(rows)
            /\ SubSeq(after, 1, Len(before)) = before
            /\ \A k \in 1..Len(rows) :
                   after[Len(before) + k] =
                       Materialized(output.queryProps.Model, output.drv.columns, rows[k])

\* C17: All / AllWithTransaction with a destination that is not a reference
\* to a growable sequence of the record type returns an error and issues no
\* query to the driver.
C17_ShapeErrorBeforeQuery ==
    (FindReturned /\ ~DestinationFits) =>
        /\ ~output.panic
        /\ output.err # ""
        /\ output.driver = <<>>


(***************************************************************************)
(* Session claims.                                                         *)
(***************************************************************************)
\* The call's statement cannot be constructed: an insert column without a
\* field, an update whose conditions argument is not a condition list, a
\* first with a nil id/condition, a query built with an empty table name.
ConstructionFails ==
    \/ /\ output.fn \in {"Insert", "InsertWithTransaction"}
       /\ buildInsertStmt([Table |-> getTableNameFromModel(output.args.s.TablePrefix,
                                                           output.args.model),
                           Fields |-> parseTags(output.args.model, <<>>).fields],
                          output.args.model).err # ""
    \/ /\ output.fn = "Update"
       /\ output.args.conditionsOrNil.kind = "other"
    \/ /\ output.fn \in {"First", "FirstWithTransaction"}
       /\ output.args.conditionOrId.kind = "nil"
    \/ /\ output.fn = "Query"
       /\ output.args.queryProps.Table = ""

\* C18: a call whose statement cannot be constructed returns an error and
\* has made no prepare, execute or query call on the driver.
C18_ConstructionErrorsBeforeDriver ==
    (output.fn \notin SessionIdle /\ ConstructionFails) =>
        /\ ~output.panic
        /\ output.err # ""
        /\ output.driver = <<>>

TxOperations ==
    {"InsertWithTransaction", "FirstWithTransaction", "AllWithTransaction",
     "UpdateWithTransaction", "DeleteWithTransaction"}

\* C19: every driver call of an operation given a transaction is a prepare,
\* an execute or a query on that transaction, none is on the connection, and
\* the operation leaves the transaction as it found it (no commit, no
\* rollback), whether it succeeds or fails.
C19_TransactionPassThrough ==
    /\ [](output.fn \in TxOperations =>
             \A i \in 1..Len(output.driver) :
                 /\ output.driver[i].on = "tx"
                 /\ output.driver[i].op \in {"prepare", "exec", "query"})
    /\ [][output'.fn \in TxOperations => res' = res]_vars

\* A failed update in a transaction: prepared and executed on the
\* transaction, which is still open.
C19_Witness ==
    /\ output.fn = "UpdateWithTransaction"
    /\ output.err = "exec"
    /\ Len(output.driver) = 2
    /\ output.driver[1].on = "tx" /\ output.driver[2].on = "tx"
    /\ res.tx = "open"

\* C20: an update or delete whose statement the driver executed returns the
\* affected-row count the driver reported, with no error, in every variant.
C20_AffectedRowsReturned ==
    (/\ output.fn \in {"Update", "Delete", "UpdateWithTransaction",
                       "DeleteWithTransaction"}
     /\ output.drv.kind = "ok"
     /\ \E i \in 1..Len(output.driver) : output.driver[i].op = "exec") =>
        /\ output.count
        /\ output.n = output.drv.n
        /\ output.err = ""


(***************************************************************************)
(* Claims on a connector with a database.                                  *)
(***************************************************************************)
\* C21: after a successful Insert, First by the record's primary-key value
\* succeeds and fills a fresh record whose every persisted field equals the
\* inserted record's.
C21_InsertFindRoundTrip ==
    output.fn = "First" =>
        /\ output.err = ""
        /\ \A j \in 1..Len(output.inserted.fields) :
               ~parseGPOTag(output.inserted.fields[j]).nil =>
                   output.after.fields[j].Value = output.inserted.fields[j].Value

\* C22: with at least 2L rows in the table, the page (limit L, offset 0)
\* and the page (limit L, offset L) read after it have L rows each and no
\* row in common.
C22_PagesDisjoint ==
    (output.fn = "PageTwo" /\ output.oneErr = "" /\ output.err = "") =>
        /\ Len(output.one) = output.limit
        /\ Len(output.page) = output.limit
        /\ \A i \in 1..Len(output.one), j \in 1..Len(output.page) :
               output.one[i] # output.page[j]

\* When the database returns the rows in insertion order for both queries
\* the two pages are the first 2L records inserted.
PagesInInsertionOrder ==
    (/\ output.fn = "PageTwo" /\ output.oneErr = "" /\ output.err = ""
     /\ \A k \in DOMAIN output.order : output.order[k] = k /\ output.oneOrder[k] = k) =>
        /\ Len(output.one) = output.limit
        /\ Len(output.page) = output.limit
        /\ \A k \in 1..(2 * output.limit) :
               (output.one \o output.page)[k] =
                   Materialized(StoreRecord(input.type, k),
                                [i \in 1..Len(res.table.Columns) |-> res.table.Columns[i].Name],
                                [i \in 1..Len(res.table.Columns) |->
                                    res.table.rows[k][res.table.Columns[i].Name]])

(***************************************************************************)
(* Claims on migration.                                                    *)
(***************************************************************************)
\* The data_type information_schema.columns reports for a column declared
\* with a type that convertGoTypeToPostgresType emits.
ReportedDataType(declared) ==
    IF HasPrefix(declared, "VARCHAR") THEN "character varying"
    ELSE IF declared = "TIMESTAMP" THEN "timestamp without time zone"
    ELSE IF declared = "FLOAT" THEN "double precision"
    ELSE ToLower(declared)

AlterReturned == output.fn \in {"_alterTable", "_migrateTable"} /\ output.drv.exists

\* C23: the ALTER diff is strictly additive: one ADD COLUMN for each column
\* of the schema absent from the live table, ALTER COLUMN ... TYPE for a
\* present column only if its type differs, ALTER COLUMN ... SET [NOT] NULL
\* only if its nullability differs, nothing dropped or renamed, and nothing
\* for a live column the schema lacks.  Checked on the calls where every
\* statement was executed.
C23_AlterDiffAdditive ==
    (AlterReturned /\ output.err = "") =>
        LET existing == existingColumns(input.live)
            issued(text) == Cardinality({k \in 1..Len(output.executed) :
                                            Contains(output.executed[k], text)})
        IN  /\ \A i \in 1..Len(input.table.Columns) :
                   LET column == input.table.Columns[i]
                       at == " COLUMN " \o column.Name \o " "
                   IN  IF column.Name \notin DOMAIN existing
                       THEN issued(" ADD" \o at) = 1 /\ issued(" ALTER" \o at) = 0
                       ELSE /\ issued(" ADD" \o at) = 0
                            /\ issued(" ALTER" \o at \o "TYPE ") =
                                   (IF existing[column.Name].Type # ReportedDataType(column.Type)
                                    THEN 1 ELSE 0)
                            /\ issued(" ALTER" \o at \o "SET ") =
                                   (IF existing[column.Name].Null # column.Null THEN 1 ELSE 0)
            /\ issued("DROP ") = 0 /\ issued("RENAME ") = 0
            /\ \A name \in DOMAIN existing :
                   (\A i \in 1..Len(input.table.Columns) : input.table.Columns[i].Name # name)
                       => issued(" COLUMN " \o name \o " ") = 0

\* What the ALTER diff does keep: the same statement, with the type test as
\* the code makes it, on the text of the reported and the declared type.
AlterDiffByTypeText ==
    (AlterReturned /\ output.err = "") =>
        LET existing == existingColumns(input.live)
            issued(text) == Cardinality({k \in 1..Len(output.executed) :
                                            Contains(output.executed[k], text)})
        IN  /\ \A i \in 1..Len(input.table.Columns) :
                   LET column == input.table.Columns[i]
                       at == " COLUMN " \o column.Name \o " "
                   IN  IF column.Name \notin DOMAIN existing
                       THEN issued(" ADD" \o at) = 1 /\ issued(" ALTER" \o at) = 0
                       ELSE /\ issued(" ADD" \o at) = 0
                            /\ issued(" ALTER" \o at \o "TYPE ") =
                                   (IF existing[column.Name].Type # column.Type THEN 1 ELSE 0)
                            /\ issued(" ALTER" \o at \o "SET ") =
                                   (IF existing[column.Name].Null # column.Null THEN 1 ELSE 0)
            /\ issued("DROP ") = 0 /\ issued("RENAME ") = 0
            /\ \A name \in DOMAIN existing :
                   (\A i \in 1..Len(input.table.Columns) : input.table.Columns[i].Name # name)
                       => issued(" COLUMN " \o name \o " ") = 0

(***************************************************************************)
(* Claims on the join engine.                                              *)
(***************************************************************************)
\* C24: a join entry point called with a join specification whose join type
\* is unset fails with MissingJoinType, and no statement has reached the
\* driver.  Stated for LeftJoinWithContext, the entry point the tests call
\* that way.
C24_MissingJoinTypeFails ==
    (output.fn = "LeftJoinWithContext" /\ input.props.JoinType = "") =>
        output.err = "MissingJoinType" /\ output.driver = <<>>

(***************************************************************************)
(* Claims on the HTTP adapter.                                             *)
(***************************************************************************)
\* C25: after ParseQueryParamsFromRequest, a missing limit / offset
\* parameter leaves Limit / Offset at 0, and a limit or offset parameter
\* that is present but no integer is reported as an error.
C25_RequestLimitOffset ==
    output.fn = "ParseQueryParamsFromRequest" =>
        /\ input.r.limit = "" => output.query.Limit = 0
        /\ input.r.offset = "" => output.query.Offset = 0
        /\ (input.r.limit # "" /\ ~Atoi(input.r.limit).ok) => output.err # ""
        /\ (input.r.offset # "" /\ ~Atoi(input.r.offset).ok) => output.err # ""

\* What the adapter does keep: a well-formed number is taken over, and a
\* missing offset is 0.
RequestNumbersTakenOver ==
    output.fn = "ParseQueryParamsFromRequest" =>
        /\ input.r.offset = "" => output.query.Offset = 0
        /\ Atoi(input.r.limit).ok => output.query.Limit = Atoi(input.r.limit).n
        /\ Atoi(input.r.offset).ok => output.query.Offset = Atoi(input.r.offset).n

(***************************************************************************)
(* Claims on the statement a find issues.                                  *)
(***************************************************************************)
\* C26: a find whose query configuration sets only Limit = L > 0 and
\* Offset = O > 0, without AllowPagination, issues a SELECT that carries
\* both the limit L and the offset O, in its text or as a bound argument.
C26_LimitAndOffsetIssued ==
    (/\ output.fn \in {"All", "AllWithTransaction"}
     /\ output.queryProps.Limit > 0 /\ output.queryProps.Offset > 0
     /\ ~output.queryProps.AllowPagination /\ ~output.queryProps.AllowSearch
     /\ ~output.panic /\ Len(output.driver) > 0)
        => LET issued == output.driver[Len(output.driver)]
               carries(keyword, n) ==
                   \/ Contains(issued.sql, keyword \o Itoa(n))
                   \/ /\ Contains(issued.sql, keyword \o "$")
                      /\ \E k \in 1..Len(issued.args) : issued.args[k] = IntV(n)
           IN  /\ carries(" LIMIT ", output.queryProps.Limit)
               /\ carries(" OFFSET ", output.queryProps.Offset)

\* What such a find does issue: the limit, and with AllowPagination set the
\* offset as well.
LimitIssued ==
    (/\ output.fn \in {"All", "AllWithTransaction"}
     /\ ~output.panic /\ Len(output.driver) > 0)
        => LET issued == output.driver[Len(output.driver)]
           IN  /\ output.queryProps.Limit > 0
                      => Contains(issued.sql, " LIMIT " \o Itoa(output.queryProps.Limit))
               /\ (output.queryProps.AllowPagination /\ output.queryProps.Offset > 0)
                      => Contains(issued.sql, " OFFSET " \o Itoa(output.queryProps.Offset))

(***************************************************************************)
(* Claims on foreign-key table names.                                      *)
(***************************************************************************)
\* C27: for every table prefix, the empty one included, the table named in
\* the REFERENCES clause derived from an annotation fk(T:C) is the table name
\* getTableNameFromModel derives under that prefix for a record type named T.
\* Stated for the annotations of the inputs, which all name user:id.
C27_ReferencesDerivedTable ==
    output.fn = "getColumnsAndForeignKeys" =>
        \A k \in 1..Len(output.foreignKeys) :
            output.foreignKeys[k].References
                = getTableNameFromModel(input.s.TablePrefix, [type |-> "User"]) \o "(id)"

\* What does hold: the clause names the configured prefix followed by the
\* annotated table, which is the derived table name under a non-empty prefix.
ReferencesPrefixedTable ==
    output.fn = "getColumnsAndForeignKeys" =>
        \A k \in 1..Len(output.foreignKeys) :
            /\ output.foreignKeys[k].References = input.s.TablePrefix \o "user(id)"
            /\ input.s.TablePrefix # "" =>
                   output.foreignKeys[k].References
                       = getTableNameFromModel(input.s.TablePrefix, [type |-> "User"]) \o "(id)"

(***************************************************************************)
(* Claims on the operator of a compiled condition.                         *)
(***************************************************************************)
\* C28: buildConditions emits each condition under its own operator; a list
\* of NOT IN conditions, whether their values are sequences or single
\* values, compiles to no equality test `field = $n`.
C28_NotInNeverEquality ==
    (/\ output.fn = "buildConditions" /\ ~output.panic
     /\ \A i \in 1..Len(input.conditions) : input.conditions[i].Operator = "NOT IN")
        => ~Contains(output.clause, " = $")

\* What does hold: a condition other than IN / NOT IN on a single value
\* appears in the clause under its own operator.
OperatorKeptUnlessSingleValueIn ==
    (output.fn = "buildConditions" /\ ~output.panic) =>
        \A i \in 1..Len(input.conditions) :
            LET condition == input.conditions[i]
            IN  (condition.Operator \in {"IN", "NOT IN"} => condition.Value.t = "slice")
                    => Contains(output.clause,
                                condition.Field \o " " \o condition.Operator \o " ")

(***************************************************************************)
(* Claims on First.                                                        *)
(***************************************************************************)
\* The caller's record after rows.Scan of one row into it: a field no result
\* column maps to is as the caller left it, a mapped field holds the
\* converted wire value of its column.
ScannedInto(model, columns, row) ==
    LET fieldMap == parseTags(model, <<>>).fieldMap
        owned(j) == {i \in 1..Len(columns) :
                        /\ columns[i] \in DOMAIN fieldMap
                        /\ fieldMap[columns[i]] = model.fields[j].Name}
        last(cols) == CHOOSE i \in cols : \A h \in cols : h <= i
    IN  [model EXCEPT !.fields =
            [j \in 1..Len(model.fields) |->
                IF owned(j) = {} THEN model.fields[j]
                ELSE [model.fields[j] EXCEPT
                         !.Value = convertAssign(model.fields[j], row[last(owned(j))]).v]]]

FirstQueried ==
    /\ output.fn \in {"First", "FirstWithTransaction"}
    /\ output.args.conditionOrId.kind # "nil"
    /\ output.drv.kind = "rows"
    /\ ~output.panic

C30_BuildRepeatable ==
    [][(res.kind = "build" /\ res'.kind = "build")
          => /\ qb' = qb
             /\ res'.query = res.query
             /\ res'.args = res.args]_vars

\* What does hold: Build never changes the builder, and repeats its result
\* whenever it does not range over a map of two or more values.
BuildRepeatableWithoutMapRange ==
    [][(res.kind = "build" /\ res'.kind = "build")
          => /\ qb' = qb
             /\ (\/ Cardinality(DOMAIN qb.values) <= 1
                 \/ qb.queryType \notin {"INSERT", "UPDATE"}
                 \/ (qb.queryType = "INSERT" /\ ~qb.insertModel.nil)
                 \/ (qb.queryType = "UPDATE" /\ ~qb.updateModel.nil))
                    => res'.query = res.query /\ res'.args = res.args]_vars

====
